---- MODULE Spec2Model ----
(***************************************************************************)
(* The match scoring engine of job_matcher.py: normalize_text,             *)
(* extract_technologies, calculate_match_score and find_matches.           *)
(*                                                                         *)
(* A Python str is a sequence of one-character strings, None is the        *)
(* sentinel below (no str equals it), a Python float is an IEEE-754        *)
(* binary64 value kept as a 53-bit significand and an exponent.            *)
(***************************************************************************)
EXTENDS Integers, Sequences, FiniteSets, TLC

VARIABLES candidate, job, match_result, candidates, jobs, min_score, matches, pc,
          job_posts, results,
          comment_text, comment_type, extracted, thread, comments_list, skipped_count,
          re_inline_flags, candidate_comments, job_comments, result_file, points,
          scored_candidates,
          technologies_found, found_tech,
          cleaned_text,
          hiring_posts, candidate_posts, all_posts,
          total_candidates, total_jobs, processed_batches,
          environ, script_runs, printed

vars == <<candidate, job, match_result, candidates, jobs, min_score, matches, pc,
          job_posts, results,
          comment_text, comment_type, extracted, thread, comments_list, skipped_count,
          re_inline_flags, candidate_comments, job_comments, result_file, points,
          scored_candidates,
          technologies_found, found_tech,
          cleaned_text,
          hiring_posts, candidate_posts, all_posts,
          total_candidates, total_jobs, processed_batches,
          environ, script_runs, printed>>

\* the variables of the two main functions, besides the lists and the
\* matches
pipeVars == <<re_inline_flags, candidate_comments, job_comments, result_file, points>>

\* the variables of the functions checked one at a time
rankVars == <<scored_candidates>>

techVars == <<technologies_found, found_tech>>

cleanVars == <<cleaned_text>>

selectVars == <<hiring_posts, candidate_posts, all_posts>>

batchVars == <<total_candidates, total_jobs, processed_batches>>

runVars == <<environ, script_runs, printed>>

moreVars == <<rankVars, techVars, cleanVars, selectVars, batchVars, runVars>>

\* the variables of the functions of get_data that read a comment
dataVars == <<comment_text, comment_type, extracted, thread, comments_list, skipped_count>>

\* the variables of match_candidates_to_jobs
blendVars == <<job_posts, results>>

----------------------------------------------------------------------------
(* Python values *)

None == <<"None">>

EmptyStr == <<>>

\* truth value of an Optional[str]: None and "" are falsy
Truthy(x) == x # None /\ x # EmptyStr

Min(a, b) == IF a <= b THEN a ELSE b

----------------------------------------------------------------------------
(* str operations *)

UpperCase == <<"A", "B", "C", "D", "E", "F", "G", "H", "I", "J", "K", "L", "M", "N", "O", "P", "Q", "R", "S", "T", "U", "V", "W", "X", "Y", "Z">>

LowerCase == <<"a", "b", "c", "d", "e", "f", "g", "h", "i", "j", "k", "l", "m", "n", "o", "p", "q", "r", "s", "t", "u", "v", "w", "x", "y", "z">>

Digits == {"0", "1", "2", "3", "4", "5", "6", "7", "8", "9"}

Range(s) == {s[i] : i \in DOMAIN s}

LowerChar(c) ==
    IF c \in Range(UpperCase)
    THEN LowerCase[CHOOSE i \in DOMAIN UpperCase : UpperCase[i] = c]
    ELSE c

\* str.lower()
lower(s) == [i \in DOMAIN s |-> LowerChar(s[i])]

\* the regex class \w
IsWordChar(c) == c \in Range(UpperCase) \cup Range(LowerCase) \cup Digits \cup {"_"}

\* the regex class \s
IsSpaceChar(c) == c \in {" ", "\t", "\n", "\r"}

\* the Python test  sub in s
Contains(s, sub) ==
    \E i \in 1..(Len(s) - Len(sub) + 1) : SubSeq(s, i, i + Len(sub) - 1) = sub

\* re.sub(r'[^\w\s]', ' ', text)
SubPunct(s) == [i \in DOMAIN s |-> IF IsWordChar(s[i]) \/ IsSpaceChar(s[i]) THEN s[i] ELSE " "]

\* re.sub(r'\s+', ' ', text): every maximal run of whitespace becomes one
\* space (the last character of the run is rewritten, the others dropped)
SubSpaces(s) ==
    LET t == [i \in DOMAIN s |->
                 IF ~IsSpaceChar(s[i]) THEN s[i]
                 ELSE IF i < Len(s) /\ IsSpaceChar(s[i + 1]) THEN "dropped"
                 ELSE " "]
        Kept(c) == c # "dropped"
    IN SelectSeq(t, Kept)

\* str.strip()
strip(s) ==
    LET solid == {i \in DOMAIN s : ~IsSpaceChar(s[i])}
    IN IF solid = {} THEN EmptyStr
       ELSE SubSeq(s, CHOOSE i \in solid : \A k \in solid : i <= k,
                      CHOOSE i \in solid : \A k \in solid : i >= k)

normalize_text(text) ==
    IF ~Truthy(text) THEN EmptyStr
    ELSE strip(SubSpaces(SubPunct(lower(text))))

----------------------------------------------------------------------------
(* technology vocabulary *)

tech_keywords ==
    { <<"j", "a", "v", "a", "s", "c", "r", "i", "p", "t">>,
      <<"t", "y", "p", "e", "s", "c", "r", "i", "p", "t">>,
      <<"p", "y", "t", "h", "o", "n">>,
      <<"j", "a", "v", "a">>,
      <<"c", "#">>,
      <<"c", "+", "+">>,
      <<"r", "u", "b", "y">>,
      <<"p", "h", "p">>,
      <<"s", "w", "i", "f", "t">>,
      <<"k", "o", "t", "l", "i", "n">>,
      <<"r", "e", "a", "c", "t">>,
      <<"a", "n", "g", "u", "l", "a", "r">>,
      <<"v", "u", "e">>,
      <<"n", "o", "d", "e">>,
      <<"d", "j", "a", "n", "g", "o">>,
      <<"f", "l", "a", "s", "k">>,
      <<"r", "a", "i", "l", "s">>,
      <<"s", "p", "r", "i", "n", "g">>,
      <<"l", "a", "r", "a", "v", "e", "l">>,
      <<"a", "w", "s">>,
      <<"a", "z", "u", "r", "e">>,
      <<"g", "c", "p">>,
      <<"m", "o", "n", "g", "o", "d", "b">>,
      <<"m", "y", "s", "q", "l">>,
      <<"p", "o", "s", "t", "g", "r", "e", "s", "q", "l">>,
      <<"s", "q", "l">>,
      <<"n", "o", "s", "q", "l">>,
      <<"d", "o", "c", "k", "e", "r">>,
      <<"k", "u", "b", "e", "r", "n", "e", "t", "e", "s">>,
      <<"g", "i", "t">>,
      <<"d", "e", "v", "o", "p", "s">>,
      <<"m", "o", "b", "i", "l", "e">>,
      <<"a", "n", "d", "r", "o", "i", "d">>,
      <<"i", "o", "s">>,
      <<"f", "r", "o", "n", "t", "e", "n", "d">>,
      <<"b", "a", "c", "k", "e", "n", "d">>,
      <<"f", "u", "l", "l", "s", "t", "a", "c", "k">>,
      <<"u", "i">>,
      <<"u", "x">>,
      <<"m", "a", "c", "h", "i", "n", "e", " ", "l", "e", "a", "r", "n", "i", "n", "g">>,
      <<"m", "l">>,
      <<"a", "i">>,
      <<"d", "a", "t", "a", " ", "s", "c", "i", "e", "n", "c", "e">>,
      <<"b", "l", "o", "c", "k", "c", "h", "a", "i", "n">>,
      <<"e", "t", "h">>,
      <<"r", "u", "s", "t">>,
      <<"g", "o">>,
      <<"g", "o", "l", "a", "n", "g">> }


extract_technologies(text) ==
    IF ~Truthy(text) THEN {}
    ELSE LET norm_text == normalize_text(text)
             padded == <<" ">> \o norm_text \o <<" ">>
         IN {keyword \in tech_keywords : Contains(padded, <<" ">> \o keyword \o <<" ">>)}

----------------------------------------------------------------------------
(* field values of the records that are scored *)

Str_Yes == <<"Y", "e", "s">>  \* "Yes"

Str_No == <<"N", "o">>  \* "No"

Str_YES == <<"Y", "E", "S">>  \* "YES"

Str_RemoteOK == <<"R", "e", "m", "o", "t", "e", " ", "O", "K">>  \* "Remote OK"

Str_Berlin == <<"B", "e", "r", "l", "i", "n">>  \* "Berlin"

Str_BerlinGermany == <<"B", "e", "r", "l", "i", "n", ",", " ", "G", "e", "r", "m", "a", "n", "y">>  \* "Berlin, Germany"

Str_PARIS == <<"P", "A", "R", "I", "S">>  \* "PARIS"

Str_Paris == <<"P", "a", "r", "i", "s">>  \* "Paris"

Str_Dash == <<"-">>  \* "-"

Str_PythonReactDocker == <<"P", "y", "t", "h", "o", "n", ",", " ", "R", "e", "a", "c", "t", ",", " ", "D", "o", "c", "k", "e", "r">>  \* "Python, React, Docker"

Str_Rust == <<"R", "u", "s", "t">>  \* "Rust"

Str_pythonDockerKubernetes == <<"p", "y", "t", "h", "o", "n", ",", " ", "d", "o", "c", "k", "e", "r", ",", " ", "k", "u", "b", "e", "r", "n", "e", "t", "e", "s">>  \* "python, docker, kubernetes"

Str_CppCsharp == <<"C", "+", "+", ",", " ", "C", "#">>  \* "C++, C#"

Str_ElevenTech == <<"P", "y", "t", "h", "o", "n", ",", " ", "R", "e", "a", "c", "t", ",", " ", "D", "o", "c", "k", "e", "r", ",", " ", "J", "a", "v", "a", ",", " ", "R", "u", "b", "y", ",", " ", "P", "H", "P", ",", " ", "S", "w", "i", "f", "t", ",", " ", "K", "o", "t", "l", "i", "n", ",", " ", "V", "u", "e", ",", " ", "N", "o", "d", "e", ",", " ", "D", "j", "a", "n", "g", "o">>  \* "Python, React, Docker, Java, Ruby, PHP, Swift, Kotlin, Vue, Node, Django"

Str_ReactDocker == <<"R", "e", "a", "c", "t", " ", "/", " ", "D", "o", "c", "k", "e", "r">>  \* "React / Docker"


----------------------------------------------------------------------------
(* Python float: IEEE-754 binary64, round-to-nearest-even.                 *)
(* A positive float is [mant, exp]: mant is the significand, a sequence of *)
(* MantBits bits with the most significant first (always 1), and the       *)
(* value is mant * 2^exp.  Zero is FloatZero.                              *)

MantBits == 53

FloatZero == [mant |-> <<>>, exp |-> 0]

\* the bits of n + 1 for a bit sequence n (one bit longer on carry out)
Increment(bits) ==
    LET zeros == {i \in DOMAIN bits : bits[i] = 0}
    IN IF zeros = {} THEN <<1>> \o [i \in DOMAIN bits |-> 0]
       ELSE LET last == CHOOSE i \in zeros : \A k \in zeros : i >= k
            IN [i \in DOMAIN bits |-> IF i < last THEN bits[i] ELSE IF i = last THEN 1 ELSE 0]

\* bits + 1 for a significand bits * 2^exp, brought back to MantBits bits
RoundedUp(inc, exp) ==
    IF Len(inc) > MantBits
    THEN [mant |-> SubSeq(inc, 1, MantBits), exp |-> exp + 1]
    ELSE [mant |-> inc, exp |-> exp]

\* round an exact value bits * 2^exp, whose discarded tail compares to one
\* half unit in the last place as tail (-1 below, 0 equal, 1 above), to
\* MantBits bits: to nearest, ties to even
RoundNearestEven(bits, exp, tail) ==
    IF tail = 1 \/ (tail = 0 /\ bits[Len(bits)] = 1)
    THEN RoundedUp(Increment(bits), exp)
    ELSE [mant |-> bits, exp |-> exp]

\* the least k with a * 2^k >= b
RECURSIVE NormShift(_, _)
NormShift(a, b) == IF a >= b THEN 0 ELSE 1 + NormShift(2 * a, b)

RECURSIVE Pow2(_)
Pow2(k) == IF k = 0 THEN 1 ELSE 2 * Pow2(k - 1)

\* n further quotient bits of r / b (r < b) and the remainder left
RECURSIVE LongDiv(_, _, _)
LongDiv(r, b, n) ==
    IF n = 0 THEN [bits |-> <<>>, rem |-> r]
    ELSE IF n = 1
    THEN LET bit == IF 2 * r >= b THEN 1 ELSE 0
         IN [bits |-> <<bit>>, rem |-> 2 * r - bit * b]
    ELSE LET first == LongDiv(r, b, n \div 2)
             second == LongDiv(first.rem, b, n - (n \div 2))
         IN [bits |-> first.bits \o second.bits, rem |-> second.rem]

\* what a raised exception leaves in place of a result
ZeroDivisionError == [raised |-> "ZeroDivisionError"]

\* the float nearest to a quotient 1.bits * 2^(-k) left with remainder rem
RoundQuotient(q, b, k) ==
    RoundNearestEven(<<1>> \o q.bits, 0 - k - (MantBits - 1),
                     IF 2 * q.rem > b THEN 1 ELSE IF 2 * q.rem = b THEN 0 ELSE -1)

\* the float a / b for integers 0 <= a <= b (int / int is true division,
\* correctly rounded); b = 0 raises
FloatDiv(a, b) ==
    IF b = 0 THEN ZeroDivisionError
    ELSE IF a = 0 THEN FloatZero
    ELSE RoundQuotient(LongDiv(a * Pow2(NormShift(a, b)) - b, b, MantBits - 1), b, NormShift(a, b))

\* the bits of a natural number
RECURSIVE NatBits(_)
NatBits(n) == IF n = 0 THEN <<>> ELSE NatBits(n \div 2) \o <<n % 2>>

RECURSIVE BitsNat(_)
BitsNat(bits) ==
    IF bits = <<>> THEN 0 ELSE 2 * BitsNat(SubSeq(bits, 1, Len(bits) - 1)) + bits[Len(bits)]

\* the low n bits of a natural number
LowBits(v, n) == [i \in 1..n |-> (v \div Pow2(n - i)) % 2]

\* the product of the bits s by c plus a carry in, worked eight bits at a
\* time from the least significant end: the bits of the same length and
\* the carry out of them
RECURSIVE MulLow(_, _, _)
MulLow(s, c, carry) ==
    IF s = <<>> THEN [bits |-> <<>>, carry |-> carry]
    ELSE LET n == Min(Len(s), 8)
             d == BitsNat(SubSeq(s, Len(s) - n + 1, Len(s))) * c + carry
             rest == MulLow(SubSeq(s, 1, Len(s) - n), c, d \div Pow2(n))
         IN [bits |-> rest.bits \o LowBits(d, n), carry |-> rest.carry]

\* the bits of a result worked from the low end, its carry out in front
JoinCarry(r) == NatBits(r.carry) \o r.bits

\* the exact product bits * c
MulBits(bits, c) == JoinCarry(MulLow(bits, c, 0))

\* the float nearest to an exact product prod * 2^exp of more than MantBits
\* bits
RoundProduct(prod, exp) ==
    LET drop == Len(prod) - MantBits
        low == SubSeq(prod, MantBits + 1, Len(prod))
        half == <<1>> \o [i \in 1..(drop - 1) |-> 0]
        tail == IF drop = 0 THEN -1
                ELSE IF low = half THEN 0
                ELSE IF low[1] = 1 THEN 1 ELSE -1
    IN RoundNearestEven(SubSeq(prod, 1, MantBits), exp + drop, tail)

\* the float x * c for a float x and a positive integer c
FloatMul(x, c) ==
    IF x = FloatZero THEN FloatZero ELSE RoundProduct(MulBits(x.mant, c), x.exp)

\* int(x) for a float 0 <= x < 2^MantBits: truncation
FloatToInt(x) ==
    IF x = FloatZero THEN 0
    ELSE IF x.exp >= 0 THEN BitsNat(x.mant) * Pow2(x.exp)
    ELSE BitsNat(SubSeq(x.mant, 1, Len(x.mant) + x.exp))

\* n zero bits
Zeros(n) == [i \in 1..n |-> 0]

\* a bit sequence without its leading zeros
StripZeros(bits) ==
    LET ones == {i \in DOMAIN bits : bits[i] = 1}
    IN IF ones = {} THEN <<>>
       ELSE SubSeq(bits, CHOOSE i \in ones : \A k \in ones : i <= k, Len(bits))

\* the sum of two bit sequences of one length plus a carry in, worked eight
\* bits at a time from the least significant end
RECURSIVE AddLow(_, _, _)
AddLow(a, b, carry) ==
    IF a = <<>> THEN [bits |-> <<>>, carry |-> carry]
    ELSE LET n == Min(Len(a), 8)
             d == BitsNat(SubSeq(a, Len(a) - n + 1, Len(a)))
                  + BitsNat(SubSeq(b, Len(b) - n + 1, Len(b))) + carry
             rest == AddLow(SubSeq(a, 1, Len(a) - n), SubSeq(b, 1, Len(b) - n), d \div Pow2(n))
         IN [bits |-> rest.bits \o LowBits(d, n), carry |-> rest.carry]

\* the sum of two bit sequences already padded to one length
AddPadded(a, b) == JoinCarry(AddLow(a, b, 0))

\* the exact sum of two bit sequences
AddBits(a, b) ==
    IF Len(a) >= Len(b) THEN AddPadded(a, Zeros(Len(a) - Len(b)) \o b)
    ELSE AddPadded(Zeros(Len(b) - Len(a)) \o a, b)

\* the exact product of two bit sequences, the second taken eight bits at
\* a time from the most significant end
RECURSIVE MulWide(_, _)
MulWide(x, y) ==
    IF y = <<>> THEN <<>>
    ELSE AddBits(MulWide(x, SubSeq(y, 1, Len(y) - Min(Len(y), 8))) \o Zeros(Min(Len(y), 8)),
                 MulBits(x, BitsNat(SubSeq(y, Len(y) - Min(Len(y), 8) + 1, Len(y)))))

\* the float x * y for two floats
FloatTimes(x, y) ==
    IF x = FloatZero \/ y = FloatZero THEN FloatZero
    ELSE RoundProduct(StripZeros(MulWide(x.mant, y.mant)), x.exp + y.exp)

\* the float x + y for two floats, neither negative
FloatAdd(x, y) ==
    IF x = FloatZero THEN y
    ELSE IF y = FloatZero THEN x
    ELSE IF x.exp >= y.exp
    THEN RoundProduct(StripZeros(AddBits(x.mant \o Zeros(x.exp - y.exp), y.mant)), y.exp)
    ELSE RoundProduct(StripZeros(AddBits(x.mant, y.mant \o Zeros(y.exp - x.exp))), x.exp)

\* x > y for two floats, neither negative
FloatGreater(x, y) ==
    IF x = FloatZero THEN FALSE
    ELSE IF y = FloatZero THEN TRUE
    ELSE \/ x.exp > y.exp
         \/ /\ x.exp = y.exp
            /\ \E i \in 1..MantBits :
                   /\ x.mant[i] > y.mant[i]
                   /\ \A k \in 1..(i - 1) : x.mant[k] = y.mant[k]

Str_yes == <<"y", "e", "s">>  \* "yes"

Str_remote == <<"r", "e", "m", "o", "t", "e">>  \* "remote"

----------------------------------------------------------------------------
(* calculate_match_score *)

NoDetails == [k \in {} |-> None]

\* what candidate["Willing to Relocate"] raises on a dict without that key
KeyError == [raised |-> "KeyError"]

\* RemoteStep with the candidate's marker compared without lower()
RemoteStep_CaseSensitive(c, j) ==
    IF /\ Truthy(j.Remote) /\ Truthy(c.Remote)
       /\ Contains(c.Remote, Str_yes)
       /\ (Contains(lower(j.Remote), Str_yes) \/ Contains(lower(j.Remote), Str_remote))
    THEN [points |-> 25, details |-> ("remote" :> "Remote preferences match (+25)")]
    ELSE [points |-> 0, details |-> NoDetails]

\* the remote block: the points added to score and the entries added to
\* score_details
RemoteStep(c, j) ==
    IF /\ Truthy(j.Remote) /\ Truthy(c.Remote)
       /\ Contains(lower(c.Remote), Str_yes)
       /\ (Contains(lower(j.Remote), Str_yes) \/ Contains(lower(j.Remote), Str_remote))
    THEN [points |-> 25, details |-> ("remote" :> "Remote preferences match (+25)")]
    ELSE [points |-> 0, details |-> NoDetails]

\* LocationStep with the relocation credit subtracted instead of added
LocationStep_SignSlip(c, j) ==
    IF Truthy(j.Location) /\ Truthy(c.Location)
    THEN LET job_location == normalize_text(j.Location)
             candidate_location == normalize_text(c.Location)
         IN IF Contains(candidate_location, job_location) \/ Contains(job_location, candidate_location)
            THEN [points |-> 20, details |-> ("location" :> "Location matches (+20)")]
            ELSE IF "WillingToRelocate" \notin DOMAIN c THEN KeyError
            ELSE IF Truthy(c.WillingToRelocate) /\ Contains(lower(c.WillingToRelocate), Str_yes)
            THEN [points |-> 0 - 10, details |-> ("location" :> "Candidate willing to relocate (+10)")]
            ELSE [points |-> 0, details |-> NoDetails]
    ELSE [points |-> 0, details |-> NoDetails]

\* LocationStep with the two normalized locations compared for equality
LocationStep_ExactMatch(c, j) ==
    IF Truthy(j.Location) /\ Truthy(c.Location)
    THEN LET job_location == normalize_text(j.Location)
             candidate_location == normalize_text(c.Location)
         IN IF job_location = candidate_location
            THEN [points |-> 20, details |-> ("location" :> "Location matches (+20)")]
            ELSE IF "WillingToRelocate" \notin DOMAIN c THEN KeyError
            ELSE IF Truthy(c.WillingToRelocate) /\ Contains(lower(c.WillingToRelocate), Str_yes)
            THEN [points |-> 10, details |-> ("location" :> "Candidate willing to relocate (+10)")]
            ELSE [points |-> 0, details |-> NoDetails]
    ELSE [points |-> 0, details |-> NoDetails]

\* the location block
LocationStep(c, j) ==
    IF Truthy(j.Location) /\ Truthy(c.Location)
    THEN LET job_location == normalize_text(j.Location)
             candidate_location == normalize_text(c.Location)
         IN IF Contains(candidate_location, job_location) \/ Contains(job_location, candidate_location)
            THEN [points |-> 20, details |-> ("location" :> "Location matches (+20)")]
            ELSE IF "WillingToRelocate" \notin DOMAIN c THEN KeyError
            ELSE IF Truthy(c.WillingToRelocate) /\ Contains(lower(c.WillingToRelocate), Str_yes)
            THEN [points |-> 10, details |-> ("location" :> "Candidate willing to relocate (+10)")]
            ELSE [points |-> 0, details |-> NoDetails]
    ELSE [points |-> 0, details |-> NoDetails]

\* TechEntries listing the job's technologies as the matching ones
TechEntries_WrongList(matching_tech, job_tech, tech_score) ==
    [points |-> tech_score,
     details |->
         ("technologies" :> <<"Technology match: ", Cardinality(matching_tech), "/",
                              Cardinality(job_tech), " (", tech_score, " points)">>)
         @@ ("matching_tech" :> job_tech)]

\* what the technology block adds for a tech_score: the f-string of
\* score_details["technologies"] is kept as the sequence of its parts,
\* list(matching_tech) as the set it lists
TechEntries(matching_tech, job_tech, tech_score) ==
    [points |-> tech_score,
     details |->
         ("technologies" :> <<"Technology match: ", Cardinality(matching_tech), "/",
                              Cardinality(job_tech), " (", tech_score, " points)">>)
         @@ ("matching_tech" :> matching_tech)]

\* the technology block from tech_match_percentage on: tech_score is
\* int(tech_match_percentage * 55); an exception the division raised
\* propagates
TechScore(matching_tech, job_tech, tech_match_percentage) ==
    IF tech_match_percentage = ZeroDivisionError THEN ZeroDivisionError
    ELSE TechEntries(matching_tech, job_tech, FloatToInt(FloatMul(tech_match_percentage, 55)))

\* TechOverlap guarded by the candidate's technologies alone, dividing
\* unconditionally
TechOverlap_NoJobGuard(candidate_tech, job_tech) ==
    IF candidate_tech # {}
    THEN TechScore(candidate_tech \cap job_tech, job_tech,
                   FloatDiv(Cardinality(candidate_tech \cap job_tech), Cardinality(job_tech)))
    ELSE [points |-> 0, details |-> NoDetails]

\* the technology block for the two extracted sets
TechOverlap(candidate_tech, job_tech) ==
    IF candidate_tech # {} /\ job_tech # {}
    THEN TechScore(candidate_tech \cap job_tech, job_tech,
                   IF job_tech # {}
                   THEN FloatDiv(Cardinality(candidate_tech \cap job_tech), Cardinality(job_tech))
                   ELSE FloatZero)
    ELSE [points |-> 0, details |-> NoDetails]

\* the technology block
TechStep(c, j) ==
    TechOverlap(extract_technologies(c.Technologies), extract_technologies(j.Technologies))

\* the score and score_details the three blocks leave, capped and returned
ScoreResult(remote, location, tech) ==
    IF location = KeyError THEN KeyError
    ELSE IF tech = ZeroDivisionError THEN ZeroDivisionError
    ELSE [score |-> Min(100, remote.points + location.points + tech.points),
          details |-> remote.details @@ location.details @@ tech.details]

\* calculate_match_score with the location block chained to the remote
\* block as its else branch
calculate_match_score_Chained(c, j) ==
    ScoreResult(RemoteStep(c, j),
                IF RemoteStep(c, j).points = 0 THEN LocationStep(c, j)
                ELSE [points |-> 0, details |-> NoDetails],
                TechStep(c, j))

calculate_match_score(c, j) ==
    ScoreResult(RemoteStep(c, j), LocationStep(c, j), TechStep(c, j))

----------------------------------------------------------------------------
(* the records scored one pair at a time: every combination of the field  *)
(* values below; "Link to HN" carries the comment id                       *)

CandidateRemoteValues == {None, Str_Yes, Str_No, Str_YES}

CandidateLocationValues == {None, Str_Berlin, Str_Paris, Str_Dash}

RelocateValues == {None, Str_Yes, Str_No}

CandidateTechValues == {None, Str_PythonReactDocker, Str_Rust}

JobRemoteValues == {None, Str_RemoteOK, Str_Yes, Str_No}

JobLocationValues == {None, EmptyStr, Str_BerlinGermany, Str_PARIS}

JobTechValues == {None, EmptyStr, Str_pythonDockerKubernetes, Str_CppCsharp, Str_ElevenTech, Str_ReactDocker}

CandidateRecords ==
    [Remote : CandidateRemoteValues, Location : CandidateLocationValues,
     WillingToRelocate : RelocateValues, Technologies : CandidateTechValues, LinkToHN : {1}]

JobRecords ==
    [Remote : JobRemoteValues, Location : JobLocationValues,
     Technologies : JobTechValues, LinkToHN : {1}]

----------------------------------------------------------------------------
(* scoring one pair *)

ScoreInit ==
    /\ candidate \in CandidateRecords
    /\ job \in JobRecords
    /\ match_result = None
    /\ candidates = <<>>
    /\ jobs = <<>>
    /\ min_score = 50
    /\ matches = None
    /\ job_posts = None
    /\ results = None
    /\ pc = "score"
    /\ comment_text = None
    /\ comment_type = None
    /\ extracted = None
    /\ thread = None
    /\ comments_list = None
    /\ skipped_count = None
    /\ re_inline_flags = None
    /\ candidate_comments = None
    /\ job_comments = None
    /\ result_file = None
    /\ points = None
    /\ scored_candidates = None
    /\ technologies_found = None
    /\ found_tech = None
    /\ cleaned_text = None
    /\ hiring_posts = None
    /\ candidate_posts = None
    /\ all_posts = None
    /\ total_candidates = None
    /\ total_jobs = None
    /\ processed_batches = None
    /\ environ = None
    /\ script_runs = None
    /\ printed = None

CalculateMatchScore ==
    /\ pc = "score"
    /\ match_result' = calculate_match_score(candidate, job)
    /\ pc' = "scored"
    /\ UNCHANGED <<candidate, job, candidates, jobs, min_score, matches, blendVars, dataVars, pipeVars, moreVars>>

\* the call with the two records in each other's place
CalculateMatchScoreSwapped ==
    /\ pc = "score"
    /\ match_result' = calculate_match_score(job, candidate)
    /\ pc' = "swapped"
    /\ UNCHANGED <<candidate, job, candidates, jobs, min_score, matches, blendVars, dataVars, pipeVars, moreVars>>

ScoreNext == CalculateMatchScore \/ CalculateMatchScoreSwapped

ScoreSpec == ScoreInit /\ [][ScoreNext]_vars

----------------------------------------------------------------------------
(* find_matches *)

\* list.sort(key=..., reverse=True), keys[i] being the key of seq[i]:
\* descending by key, and stable, so entries with equal keys keep the
\* order they had
SortDescending(seq, keys) ==
    LET Before(i, k) == keys[i] > keys[k] \/ (keys[i] = keys[k] /\ i < k)
        rank(i) == 1 + Cardinality({k \in DOMAIN seq : Before(k, i)})
    IN [p \in DOMAIN seq |-> seq[CHOOSE i \in DOMAIN seq : rank(i) = p]]

\* max() of a non-empty list of numbers
Max(seq) == CHOOSE v \in Range(seq) : \A w \in Range(seq) : v >= w

\* the keys lambda x: x["match_score"] gives the matches of a list
MatchScoresOf(match_list) == [i \in DOMAIN match_list |-> match_list[i].match_score]

\* the keys lambda x: max([m["match_score"] for m in x["matches"]]) gives
\* the entries of a list
BestScoresOf(entries) == [i \in DOMAIN entries |-> Max(MatchScoresOf(entries[i].matches))]

\* list.sort(key=...) followed by list.reverse(): descending by key, but
\* entries with equal keys end in the reverse of the order they had
SortThenReverse(seq, keys) ==
    LET Before(i, k) == keys[i] > keys[k] \/ (keys[i] = keys[k] /\ i > k)
        rank(i) == 1 + Cardinality({k \in DOMAIN seq : Before(k, i)})
    IN [p \in DOMAIN seq |-> seq[CHOOSE i \in DOMAIN seq : rank(i) = p]]

\* the dict appended to candidate_matches for a job and its match_result
MatchEntry(job_i, result) ==
    [job |-> job_i, match_score |-> result.score, match_details |-> result.details]

\* ScoredJobs keeping the match_result of the first job for every job
ScoredJobs_StaleResult(cand, job_list) ==
    [i \in DOMAIN job_list |-> MatchEntry(job_list[i], calculate_match_score(cand, job_list[1]))]

\* the jobs of the inner loop, each with its score
ScoredJobs(cand, job_list) ==
    [i \in DOMAIN job_list |-> MatchEntry(job_list[i], calculate_match_score(cand, job_list[i]))]

\* KeepAtLeast with the test match_result["score"] > min_score
KeepAtLeast_Strict(match_list, threshold) ==
    LET Above(m) == m.match_score > threshold
    IN SelectSeq(match_list, Above)

\* the matches the test match_result["score"] >= min_score lets through
KeepAtLeast(match_list, threshold) ==
    LET AtLeast(m) == m.match_score >= threshold
    IN SelectSeq(match_list, AtLeast)

\* candidate_matches.sort(key=lambda x: x["match_score"], reverse=True)
SortByMatchScore(match_list) == SortDescending(match_list, MatchScoresOf(match_list))

\* CandidateMatches comparing the score with the default 50 instead of
\* the min_score passed in
CandidateMatches_DefaultThreshold(cand, job_list, threshold) ==
    SortByMatchScore(KeepAtLeast(ScoredJobs(cand, job_list), 50))

\* CandidateMatches sorting ascending and reversing the list
CandidateMatches_TiesReversed(cand, job_list, threshold) ==
    SortThenReverse(KeepAtLeast(ScoredJobs(cand, job_list), threshold),
                    MatchScoresOf(KeepAtLeast(ScoredJobs(cand, job_list), threshold)))

\* the inner loop over jobs for one candidate, and the sort that follows it
CandidateMatches(cand, job_list, threshold) ==
    SortByMatchScore(KeepAtLeast(ScoredJobs(cand, job_list), threshold))

\* the candidates of the outer loop, each with its matches
CandidateEntries(candidate_list, job_list, threshold) ==
    [i \in DOMAIN candidate_list |->
        [candidate |-> candidate_list[i],
         matches |-> CandidateMatches(candidate_list[i], job_list, threshold)]]

\* the entries the test  if candidate_matches  lets through
WithMatches(entries) ==
    LET HasMatches(entry) == entry.matches # <<>>
    IN SelectSeq(entries, HasMatches)

\* matches.sort(key=lambda x: max(...), reverse=True)
SortByBestScore(entries) == SortDescending(entries, BestScoresOf(entries))

\* find_matches without the final sort of the candidate entries
find_matches_NoFinalSort(candidate_list, job_list, threshold) ==
    WithMatches(CandidateEntries(candidate_list, job_list, threshold))

find_matches(candidate_list, job_list, threshold) ==
    SortByBestScore(WithMatches(CandidateEntries(candidate_list, job_list, threshold)))

----------------------------------------------------------------------------
(* the records ranked by find_matches: each is one comment, so no two      *)
(* share a "Link to HN"                                                    *)

MaxCandidates == 2

MaxJobs == 2

CandidatePool ==
    { [Remote |-> Str_Yes, Location |-> Str_Berlin, WillingToRelocate |-> None,
       Technologies |-> Str_PythonReactDocker, LinkToHN |-> 1],
      [Remote |-> Str_No, Location |-> Str_Paris, WillingToRelocate |-> Str_Yes,
       Technologies |-> Str_Rust, LinkToHN |-> 2],
      [Remote |-> Str_YES, Location |-> Str_Paris, WillingToRelocate |-> Str_No,
       Technologies |-> Str_PythonReactDocker, LinkToHN |-> 3],
      [Remote |-> Str_Yes, Location |-> Str_Berlin, WillingToRelocate |-> None,
       Technologies |-> Str_PythonReactDocker, LinkToHN |-> 4] }

JobPool ==
    { [Remote |-> Str_RemoteOK, Location |-> Str_BerlinGermany,
       Technologies |-> Str_pythonDockerKubernetes, LinkToHN |-> 11],
      [Remote |-> Str_Yes, Location |-> Str_PARIS,
       Technologies |-> Str_ReactDocker, LinkToHN |-> 12],
      [Remote |-> Str_RemoteOK, Location |-> Str_BerlinGermany,
       Technologies |-> Str_pythonDockerKubernetes, LinkToHN |-> 13],
      [Remote |-> None, Location |-> None,
       Technologies |-> Str_ElevenTech, LinkToHN |-> 14] }

MinScoreValues == {0, 20, 50, 81, 101}

\* the lists of at most n distinct records of a pool
ListsOf(pool, n) ==
    {l \in UNION {[1..len -> pool] : len \in 0..n} :
        \A i \in DOMAIN l : \A k \in DOMAIN l : i # k => l[i] # l[k]}

Init ==
    /\ candidates \in ListsOf(CandidatePool, MaxCandidates)
    /\ jobs \in ListsOf(JobPool, MaxJobs)
    /\ min_score \in MinScoreValues
    /\ matches = None
    /\ candidate = None
    /\ job = None
    /\ match_result = None
    /\ job_posts = None
    /\ results = None
    /\ pc = "find"
    /\ comment_text = None
    /\ comment_type = None
    /\ extracted = None
    /\ thread = None
    /\ comments_list = None
    /\ skipped_count = None
    /\ re_inline_flags = None
    /\ candidate_comments = None
    /\ job_comments = None
    /\ result_file = None
    /\ points = None
    /\ scored_candidates = None
    /\ technologies_found = None
    /\ found_tech = None
    /\ cleaned_text = None
    /\ hiring_posts = None
    /\ candidate_posts = None
    /\ all_posts = None
    /\ total_candidates = None
    /\ total_jobs = None
    /\ processed_batches = None
    /\ environ = None
    /\ script_runs = None
    /\ printed = None

FindMatches ==
    /\ pc = "find"
    /\ matches' = find_matches(candidates, jobs, min_score)
    /\ pc' = "found"
    /\ UNCHANGED <<candidate, job, match_result, candidates, jobs, min_score, blendVars, dataVars, pipeVars, moreVars>>

Next == FindMatches

Spec == Init /\ [][Next]_vars

----------------------------------------------------------------------------
(* get_data.match_candidates_to_jobs: the blended score of the candidates  *)
(* the vector search returns for a job post.  Technology names are list    *)
(* elements compared whole, so they are kept as strings.                   *)

\* the literals 0.6 and 0.4
Float_0_6 == FloatDiv(3, 5)

Float_0_4 == FloatDiv(2, 5)

\* the job technologies found in candidate_technologies, counted
tech_match_score(job_technologies, candidate_technologies) ==
    Cardinality({i \in DOMAIN job_technologies :
                    job_technologies[i] \in Range(candidate_technologies)})

\* the share of the job technologies matched, in percent; the int 0 the
\* code keeps for a job without technologies multiplies as 0.0
tech_match_percentage(job_technologies, candidate_technologies) ==
    IF job_technologies # <<>>
    THEN FloatMul(FloatDiv(tech_match_score(job_technologies, candidate_technologies),
                           Len(job_technologies)), 100)
    ELSE FloatZero

\* overall_score with the two weights exchanged
overall_score_WeightsSwapped(percentage, score) ==
    FloatAdd(FloatTimes(Float_0_4, percentage), FloatTimes(Float_0_6, FloatMul(score, 100)))

\* 0.6 * tech_match_percentage + 0.4 * (candidate.score * 100)
overall_score(percentage, score) ==
    FloatAdd(FloatTimes(Float_0_6, percentage), FloatTimes(Float_0_4, FloatMul(score, 100)))

\* the dict appended to job_matches
JobMatch(job_data, hit, percentage) ==
    [job |-> job_data,
     candidate |-> hit.payload,
     similarity_score |-> hit.score,
     tech_match_percentage |-> percentage,
     overall_match_score |-> overall_score(percentage, hit.score)]

\* job_matches.sort(key=lambda x: x["overall_match_score"], reverse=True)
SortByOverall(match_list) ==
    LET Before(i, k) ==
            \/ FloatGreater(match_list[i].overall_match_score, match_list[k].overall_match_score)
            \/ /\ match_list[i].overall_match_score = match_list[k].overall_match_score
               /\ i < k
        rank(i) == 1 + Cardinality({k \in DOMAIN match_list : Before(k, i)})
    IN [p \in DOMAIN match_list |-> match_list[CHOOSE i \in DOMAIN match_list : rank(i) = p]]

\* the matches of one job post, scored and sorted
job_matches(job_data, hits) ==
    SortByOverall([i \in DOMAIN hits |->
                      JobMatch(job_data, hits[i],
                               tech_match_percentage(job_data.technologies,
                                                     hits[i].payload.technologies))])

\* results after the loop over the first n job posts
RECURSIVE ExtendResults(_, _, _)
ExtendResults(posts, hits_of, n) ==
    IF n = 0 THEN <<>>
    ELSE ExtendResults(posts, hits_of, n - 1) \o job_matches(posts[n], hits_of[n])

MaxHits == 2

\* the job payloads client.scroll may return
JobPostPool ==
    { [author |-> "acme", technologies |-> <<"docker", "python", "react">>,
       location |-> "Berlin", remote |-> "No"],
      [author |-> "bolt", technologies |-> <<>>,
       location |-> "Unknown", remote |-> "Yes"],
      [author |-> "core", technologies |-> <<"go", "python", "sql">>,
       location |-> "Paris", remote |-> "Yes"],
      [author |-> "dyne", technologies |-> <<"aws", "docker", "go", "kubernetes", "python", "react", "rust">>,
       location |-> "Unknown", remote |-> "No"],
      [author |-> "edge", technologies |-> <<"rust">>,
       location |-> "Berlin", remote |-> "No"] }

\* the cosine similarity of the points below, in twentieths
SimilarityTwentieths == <<20, 17, 13, 7, 7, 0>>

\* the scored points client.search may return: id, payload and score
HitPool ==
    { [id |-> 1, score |-> FloatDiv(SimilarityTwentieths[1], 20),
       payload |-> [author |-> "ann", technologies |-> <<"docker", "python", "react">>,
                    location |-> "Berlin", remote |-> "Yes", willing_to_relocate |-> "No"]],
      [id |-> 2, score |-> FloatDiv(SimilarityTwentieths[2], 20),
       payload |-> [author |-> "bob", technologies |-> <<"python">>,
                    location |-> "Paris", remote |-> "No", willing_to_relocate |-> "Yes"]],
      [id |-> 3, score |-> FloatDiv(SimilarityTwentieths[3], 20),
       payload |-> [author |-> "cyd", technologies |-> <<"go", "rust">>,
                    location |-> "Unknown", remote |-> "Yes", willing_to_relocate |-> "No"]],
      [id |-> 4, score |-> FloatDiv(SimilarityTwentieths[4], 20),
       payload |-> [author |-> "dee", technologies |-> <<"docker", "python", "react">>,
                    location |-> "Berlin", remote |-> "No", willing_to_relocate |-> "No"]],
      [id |-> 5, score |-> FloatDiv(SimilarityTwentieths[5], 20),
       payload |-> [author |-> "eli", technologies |-> <<>>,
                    location |-> "Unknown", remote |-> "No", willing_to_relocate |-> "No"]],
      [id |-> 6, score |-> FloatDiv(SimilarityTwentieths[6], 20),
       payload |-> [author |-> "fay", technologies |-> <<"aws", "go", "python", "sql">>,
                    location |-> "Paris", remote |-> "Yes", willing_to_relocate |-> "Yes"]] }

\* what a search can return: at most MaxHits distinct points, the most
\* similar first
HitLists ==
    {l \in ListsOf(HitPool, MaxHits) :
        \A i \in DOMAIN l : \A k \in DOMAIN l :
            i < k => ~FloatGreater(l[k].score, l[i].score)}

BlendInit ==
    /\ job_posts \in {<<>>} \cup {<<post>> : post \in JobPostPool}
    /\ results = None
    /\ candidate = None
    /\ job = None
    /\ match_result = None
    /\ candidates = None
    /\ jobs = None
    /\ min_score = None
    /\ matches = None
    /\ pc = "blend"
    /\ comment_text = None
    /\ comment_type = None
    /\ extracted = None
    /\ thread = None
    /\ comments_list = None
    /\ skipped_count = None
    /\ re_inline_flags = None
    /\ candidate_comments = None
    /\ job_comments = None
    /\ result_file = None
    /\ points = None
    /\ scored_candidates = None
    /\ technologies_found = None
    /\ found_tech = None
    /\ cleaned_text = None
    /\ hiring_posts = None
    /\ candidate_posts = None
    /\ all_posts = None
    /\ total_candidates = None
    /\ total_jobs = None
    /\ processed_batches = None
    /\ environ = None
    /\ script_runs = None
    /\ printed = None

\* the call, with the search results of each job post as its input
MatchCandidatesToJobs ==
    /\ pc = "blend"
    /\ \E hits_of \in [DOMAIN job_posts -> HitLists] :
           results' = ExtendResults(job_posts, hits_of, Len(job_posts))
    /\ pc' = "blended"
    /\ UNCHANGED <<candidate, job, match_result, candidates, jobs, min_score, matches, job_posts, dataVars, pipeVars, moreVars>>

BlendNext == MatchCandidatesToJobs

BlendSpec == BlendInit /\ [][BlendNext]_vars

----------------------------------------------------------------------------
(* re: the pieces of the regular expressions of get_data.py and            *)
(* job_matcher.py, matched over a str the way re.search matches them       *)
(* (leftmost start, greedy quantifiers, backtracking, alternatives in      *)
(* order).  A pattern compiled with IGNORECASE is matched over lower(s).   *)

\* what re.search returns when nothing matches
NoMatch == <<"NoMatch">>

\* the least element of a non-empty set of integers
Least(S) == CHOOSE x \in S : \A y \in S : x <= y

\* the greatest element of a non-empty set of integers
Greatest(S) == CHOOSE x \in S : \A y \in S : x >= y

SpaceChars == {" ", "\t", "\n", "\r"}

WordChars == Range(UpperCase) \cup Range(LowerCase) \cup Digits \cup {"_"}

\* the literal lit matches s at position i
LitAt(s, i, lit) ==
    /\ i >= 1
    /\ i + Len(lit) - 1 <= Len(s)
    /\ \A k \in 1..Len(lit) : s[i + k - 1] = lit[k]

\* the last position of the longest run of characters of a class that
\* starts at position i (i - 1 when the run is empty): a greedy [class]*
RunEnd(s, i, class) ==
    LET stops == {k \in i..Len(s) : s[k] \notin class}
    IN IF stops = {} THEN Len(s) ELSE Least(stops) - 1

\* the same for a negated class: a greedy [^class]*
RunEndNot(s, i, class) ==
    LET stops == {k \in i..Len(s) : s[k] \in class}
    IN IF stops = {} THEN Len(s) ELSE Least(stops) - 1

\* the assertion \b between positions i - 1 and i
Boundary(s, i) ==
    (i - 1 >= 1 /\ i - 1 <= Len(s) /\ s[i - 1] \in WordChars)
        # (i >= 1 /\ i <= Len(s) /\ s[i] \in WordChars)

\* \b lit \b matches somewhere in s
HasWord(s, lit) ==
    \E i \in 1..Len(s) : Boundary(s, i) /\ LitAt(s, i, lit) /\ Boundary(s, i + Len(lit))

\* \b first [\-\s] second \b matches somewhere in s
HasWordPair(s, first, second) ==
    \E sep \in {"-"} \cup SpaceChars : HasWord(s, first \o <<sep>> \o second)

\* a str of digits without its leading zeros ("0" for zero)
Canonical(digits) ==
    LET solid == {i \in DOMAIN digits : digits[i] # "0"}
    IN IF solid = {} THEN <<"0">> ELSE SubSeq(digits, Least(solid), Len(digits))

\* the int that int(digits) returns, kept as its decimal digits behind a
\* tag no str starts with
PyInt(digits) == <<"int">> \o Canonical(digits)

IsPyInt(v) == Len(v) >= 1 /\ v[1] = "int"

Lit_years == <<"y", "e", "a", "r", "s">>  \* "years"

Lit_yrs == <<"y", "r", "s">>  \* "yrs"

Lit_experience == <<"e", "x", "p", "e", "r", "i", "e", "n", "c", "e">>  \* "experience"

Lit_exp == <<"e", "x", "p">>  \* "exp"

Lit_of == <<"o", "f">>  \* "of"

Lit_with == <<"w", "i", "t", "h">>  \* "with"

Lit_senior == <<"s", "e", "n", "i", "o", "r">>  \* "senior"

Lit_sr == <<"s", "r">>  \* "sr"

Lit_sr_dot == <<"s", "r", ".">>  \* "sr."

Lit_lead == <<"l", "e", "a", "d">>  \* "lead"

Lit_principal == <<"p", "r", "i", "n", "c", "i", "p", "a", "l">>  \* "principal"

Lit_staff == <<"s", "t", "a", "f", "f">>  \* "staff"

Lit_mid == <<"m", "i", "d">>  \* "mid"

Lit_level == <<"l", "e", "v", "e", "l">>  \* "level"

Lit_career == <<"c", "a", "r", "e", "e", "r">>  \* "career"

Lit_intermediate == <<"i", "n", "t", "e", "r", "m", "e", "d", "i", "a", "t", "e">>  \* "intermediate"

Lit_junior == <<"j", "u", "n", "i", "o", "r">>  \* "junior"

Lit_jr == <<"j", "r">>  \* "jr"

Lit_jr_dot == <<"j", "r", ".">>  \* "jr."

Lit_entry == <<"e", "n", "t", "r", "y">>  \* "entry"

Lit_beginner == <<"b", "e", "g", "i", "n", "n", "e", "r">>  \* "beginner"

Lit_graduate == <<"g", "r", "a", "d", "u", "a", "t", "e">>  \* "graduate"

Lit_fresh == <<"f", "r", "e", "s", "h">>  \* "fresh"

Lit_open == <<"o", "p", "e", "n">>  \* "open"

Lit_willing == <<"w", "i", "l", "l", "i", "n", "g">>  \* "willing"

Lit_no == <<"n", "o">>  \* "no"

Lit_not == <<"n", "o", "t">>  \* "not"

Lit_unwilling == <<"u", "n", "w", "i", "l", "l", "i", "n", "g">>  \* "unwilling"

----------------------------------------------------------------------------
(* get_data.extract_years_of_experience and extract_field *)

Str_SeniorBand == <<"S", "e", "n", "i", "o", "r", " ", "(", "5", "+", " ", "y", "e", "a", "r", "s", ")">>  \* "Senior (5+ years)"

Str_MidBand == <<"M", "i", "d", "-", "l", "e", "v", "e", "l", " ", "(", "3", "-", "5", " ", "y", "e", "a", "r", "s", ")">>  \* "Mid-level (3-5 years)"

Str_JuniorBand == <<"J", "u", "n", "i", "o", "r", " ", "(", "0", "-", "2", " ", "y", "e", "a", "r", "s", ")">>  \* "Junior (0-2 years)"

Str_NotSpecified == <<"N", "o", "t", " ", "s", "p", "e", "c", "i", "f", "i", "e", "d">>  \* "Not specified"

Field_Experience == <<"E", "x", "p", "e", "r", "i", "e", "n", "c", "e">>  \* "Experience"

Field_Education == <<"E", "d", "u", "c", "a", "t", "i", "o", "n">>  \* "Education"

Field_Available == <<"A", "v", "a", "i", "l", "a", "b", "l", "e">>  \* "Available"

Field_StartDate == <<"S", "t", "a", "r", "t", " ", "D", "a", "t", "e">>  \* "Start Date"

Field_Role == <<"R", "o", "l", "e">>  \* "Role"

Field_Position == <<"P", "o", "s", "i", "t", "i", "o", "n">>  \* "Position"

Field_VisaStatus == <<"V", "i", "s", "a", " ", "S", "t", "a", "t", "u", "s">>  \* "Visa Status"

Field_WorkAuthorization == <<"W", "o", "r", "k", " ", "A", "u", "t", "h", "o", "r", "i", "z", "a", "t", "i", "o", "n">>  \* "Work Authorization"

\* (\d+)\+?\s*(?:years|yrs) matches s at position i, the digits being the
\* whole run that starts there
YearsAt(s, i) ==
    LET d == RunEnd(s, i, Digits)
        plus == IF LitAt(s, d + 1, <<"+">>) THEN d + 2 ELSE d + 1
        word == RunEnd(s, plus, SpaceChars) + 1
    IN i >= 1 /\ d >= i /\ (LitAt(s, word, Lit_years) \/ LitAt(s, word, Lit_yrs))

\* the position after that match
YearsEnd(s, i) ==
    LET d == RunEnd(s, i, Digits)
        plus == IF LitAt(s, d + 1, <<"+">>) THEN d + 2 ELSE d + 1
        word == RunEnd(s, plus, SpaceChars) + 1
    IN IF LitAt(s, word, Lit_years) THEN word + Len(Lit_years) ELSE word + Len(Lit_yrs)

\* group(1) of a match whose digits start at position i
DigitsFrom(s, i) == SubSeq(s, i, RunEnd(s, i, Digits))

\* group(1) of the leftmost match, At[i] being where the digits of a match
\* that starts at position i begin (0: no match starts there)
LeftmostDigits(s, At) ==
    LET hits == {i \in DOMAIN At : At[i] # 0}
    IN IF hits = {} THEN NoMatch ELSE DigitsFrom(s, At[Least(hits)])

\* r'(\d+)\+?\s*(?:years|yrs)(?:\s*of)?(?:\s*experience)?'
ExperiencePattern1(s) ==
    LeftmostDigits(s, [i \in 1..Len(s) |-> IF YearsAt(s, i) THEN i ELSE 0])

\* the position after (?:\s*of) matched at position a (0: no match)
AfterOf(s, a) ==
    IF LitAt(s, RunEnd(s, a, SpaceChars) + 1, Lit_of)
    THEN RunEnd(s, a, SpaceChars) + 1 + Len(Lit_of)
    ELSE 0

\* where the digits of \s*(\d+)\+?\s*(?:years|yrs) begin when matched at
\* position a (0: no match)
SpacedYearsAt(s, a) ==
    IF a >= 1 /\ YearsAt(s, RunEnd(s, a, SpaceChars) + 1)
    THEN RunEnd(s, a, SpaceChars) + 1
    ELSE 0

\* the same after an optional \s*of, taken first
OfYearsAt(s, a) ==
    IF AfterOf(s, a) # 0 /\ SpacedYearsAt(s, AfterOf(s, a)) # 0
    THEN SpacedYearsAt(s, AfterOf(s, a))
    ELSE SpacedYearsAt(s, a)

\* r'(?:experience|exp)(?:\s*of)?\s*(\d+)\+?\s*(?:years|yrs)'
ExperiencePattern2(s) ==
    LeftmostDigits(s, [i \in 1..Len(s) |->
        IF LitAt(s, i, Lit_experience) /\ OfYearsAt(s, i + Len(Lit_experience)) # 0
        THEN OfYearsAt(s, i + Len(Lit_experience))
        ELSE IF LitAt(s, i, Lit_exp) THEN OfYearsAt(s, i + Len(Lit_exp))
        ELSE 0])

\* r'(?:with)?\s*(\d+)\+?\s*(?:years|yrs)(?:\s*of)?(?:\s*experience)?'
ExperiencePattern3(s) ==
    LeftmostDigits(s, [i \in 1..Len(s) |->
        IF LitAt(s, i, Lit_with) /\ SpacedYearsAt(s, i + Len(Lit_with)) # 0
        THEN SpacedYearsAt(s, i + Len(Lit_with))
        ELSE SpacedYearsAt(s, i)])

\* where the digits of a lazy .*? followed by (\d+)\+?\s*(?:years|yrs)
\* begin when matched at position a (0: no match): . stops at a newline
LazyYearsAt(s, a) ==
    LET starts == {p \in a..(RunEndNot(s, a, {"\n"}) + 1) : YearsAt(s, p)}
    IN IF starts = {} THEN 0 ELSE Least(starts)

\* r'senior.*?(\d+)\+?\s*(?:years|yrs)'
ExperiencePattern4(s) ==
    LeftmostDigits(s, [i \in 1..Len(s) |->
        IF LitAt(s, i, Lit_senior) THEN LazyYearsAt(s, i + Len(Lit_senior)) ELSE 0])

\* r'(\d+)\+?\s*(?:years|yrs).*?senior'
ExperiencePattern5(s) ==
    LeftmostDigits(s, [i \in 1..Len(s) |->
        IF /\ YearsAt(s, i)
           /\ \E q \in YearsEnd(s, i)..(RunEndNot(s, YearsEnd(s, i), {"\n"}) + 1) :
                  LitAt(s, q, Lit_senior)
        THEN i ELSE 0])

\* r'\b(?:senior|sr\.?|lead|principal|staff)\b'
SeniorKeyword(s) ==
    \/ HasWord(s, Lit_senior) \/ HasWord(s, Lit_sr_dot) \/ HasWord(s, Lit_sr)
    \/ HasWord(s, Lit_lead) \/ HasWord(s, Lit_principal) \/ HasWord(s, Lit_staff)

\* r'\b(?:mid[\-\s]level|intermediate|mid[\-\s]career)\b'
MidKeyword(s) ==
    \/ HasWordPair(s, Lit_mid, Lit_level) \/ HasWord(s, Lit_intermediate)
    \/ HasWordPair(s, Lit_mid, Lit_career)

\* r'\b(?:junior|jr\.?|entry[\-\s]level|beginner|graduate|fresh)\b'
JuniorKeyword(s) ==
    \/ HasWord(s, Lit_junior) \/ HasWord(s, Lit_jr_dot) \/ HasWord(s, Lit_jr)
    \/ HasWordPair(s, Lit_entry, Lit_level) \/ HasWord(s, Lit_beginner)
    \/ HasWord(s, Lit_graduate) \/ HasWord(s, Lit_fresh)

\* the seniority band of the keywords of s
SeniorityBand(s) ==
    IF SeniorKeyword(s) THEN Str_SeniorBand
    ELSE IF MidKeyword(s) THEN Str_MidBand
    ELSE IF JuniorKeyword(s) THEN Str_JuniorBand
    ELSE Str_NotSpecified

\* the loop over experience_patterns: group(1) of the first pattern that
\* matches
FirstExperienceMatch(captures) ==
    LET matched == {k \in DOMAIN captures : captures[k] # NoMatch}
    IN IF matched = {} THEN NoMatch ELSE captures[Least(matched)]

\* the return value for the captured digits, or for no capture
YearsOrBand(s, digits) ==
    IF digits # NoMatch THEN PyInt(digits) ELSE SeniorityBand(s)

extract_years_of_experience(text) ==
    IF ~Truthy(text) THEN None
    ELSE YearsOrBand(lower(text),
                     FirstExperienceMatch(<<ExperiencePattern1(lower(text)),
                                            ExperiencePattern2(lower(text)),
                                            ExperiencePattern3(lower(text)),
                                            ExperiencePattern4(lower(text)),
                                            ExperiencePattern5(lower(text))>>))

\* "Yes", "No" or None for the words of field_text
YesNo(field_text) ==
    IF Contains(field_text, Str_yes) \/ Contains(field_text, Lit_open)
       \/ Contains(field_text, Lit_willing)
    THEN Str_Yes
    ELSE IF Contains(field_text, Lit_no) \/ Contains(field_text, Lit_not)
            \/ Contains(field_text, Lit_unwilling)
    THEN Str_No
    ELSE None

\* group(0) of (?:name|name ?:)[^\n]* searched in text with IGNORECASE: from
\* the leftmost name to the end of its line
FieldLineIn(text, s, name) ==
    LET hits == {i \in 1..Len(s) : LitAt(s, i, name)}
    IN IF hits = {} THEN NoMatch
       ELSE SubSeq(text, Least(hits), RunEndNot(text, Least(hits) + Len(name), {"\n"}))

FieldLine(text, name) == FieldLineIn(text, lower(text), lower(name))

\* the result for the matched line, or for no match
FieldValue(line) == IF line = NoMatch THEN None ELSE YesNo(lower(line))

extract_field(text, field_name) == FieldValue(FieldLine(text, field_name))

\* the Python expression  a or b
Or(a, b) == IF Truthy(a) THEN a ELSE b

extract_candidate_specific_data(text) ==
    [years_of_experience |-> Or(extract_field(text, Field_Experience),
                                extract_years_of_experience(text)),
     education |-> extract_field(text, Field_Education),
     availability |-> Or(extract_field(text, Field_Available),
                         extract_field(text, Field_StartDate)),
     preferred_role |-> Or(extract_field(text, Field_Role),
                           extract_field(text, Field_Position)),
     visa_status |-> Or(extract_field(text, Field_VisaStatus),
                        extract_field(text, Field_WorkAuthorization))]

----------------------------------------------------------------------------
(* get_data.extract_salary *)

Str_job == <<"j", "o", "b">>  \* "job"

Str_candidate == <<"c", "a", "n", "d", "i", "d", "a", "t", "e">>  \* "candidate"

Lit_salary_of == <<"s", "a", "l", "a", "r", "y", " ", "o", "f">>  \* "salary of"

Lit_dollar == <<"$">>  \* "$"

Lit_dash == <<"-">>  \* "-"

\* what match.group(1) raises on a pattern without a group, and
\* str.split(...)[1] on a one-element list, in place of a str
IndexError == <<"IndexError">>

\* the position after the first of the literals lits that matches s at
\* position i (0: none does)
AfterAnyLit(s, i, lits) ==
    LET found == {k \in DOMAIN lits : LitAt(s, i, lits[k])}
    IN IF found = {} THEN 0 ELSE i + Len(lits[Least(found)])

\* where ([^\n]+) begins when \s*([^\n]+) is matched at position a (0: no
\* match): \s* takes the longest run of whitespace that leaves the group a
\* character other than a newline
LineCaptureStart(s, a) ==
    LET starts == {p \in a..Min(RunEnd(s, a, SpaceChars) + 1, Len(s)) : s[p] # "\n"}
    IN IF a < 1 \/ starts = {} THEN 0 ELSE Greatest(starts)

\* group(1) of the leftmost match of  label \s*([^\n]+), After[i] being the
\* position after a label that matches at position i (0: none does)
LeftmostLineCapture(text, After) ==
    LET hits == {i \in DOMAIN After : After[i] # 0 /\ LineCaptureStart(text, After[i]) # 0}
    IN IF hits = {} THEN NoMatch
       ELSE SubSeq(text, LineCaptureStart(text, After[Least(hits)]),
                   RunEndNot(text, LineCaptureStart(text, After[Least(hits)]), {"\n"}))

\* group(1) of  (?:labels)\s*([^\n]+)  searched in text with IGNORECASE
LabelCapture(text, labels) ==
    LeftmostLineCapture(text, [i \in 1..Len(text) |-> AfterAnyLit(lower(text), i, labels)])

\* (?:Salary|Compensation|Pay|Budget|Rate):
JobSalaryLabels ==
    << <<"s", "a", "l", "a", "r", "y", ":">>,
       <<"c", "o", "m", "p", "e", "n", "s", "a", "t", "i", "o", "n", ":">>,
       <<"p", "a", "y", ":">>,
       <<"b", "u", "d", "g", "e", "t", ":">>,
       <<"r", "a", "t", "e", ":">> >>

\* (?:paying|offer|range|budget):
JobOfferLabels ==
    << <<"p", "a", "y", "i", "n", "g", ":">>,
       <<"o", "f", "f", "e", "r", ":">>,
       <<"r", "a", "n", "g", "e", ":">>,
       <<"b", "u", "d", "g", "e", "t", ":">> >>

\* (?:Expected Salary|Rate|Desired Compensation|Target):
CandidateSalaryLabels ==
    << <<"e", "x", "p", "e", "c", "t", "e", "d", " ", "s", "a", "l", "a", "r", "y", ":">>,
       <<"r", "a", "t", "e", ":">>,
       <<"d", "e", "s", "i", "r", "e", "d", " ", "c", "o", "m", "p", "e", "n", "s", "a", "t", "i", "o", "n", ":">>,
       <<"t", "a", "r", "g", "e", "t", ":">> >>

\* (?:seeking|looking for|targeting)
SeekingWords ==
    << <<"s", "e", "e", "k", "i", "n", "g">>,
       <<"l", "o", "o", "k", "i", "n", "g", " ", "f", "o", "r">>,
       <<"t", "a", "r", "g", "e", "t", "i", "n", "g">> >>

\* (?:USD|per year|annual|/year|k|/hr|/hour)
SalaryUnits ==
    << <<"u", "s", "d">>,
       <<"p", "e", "r", " ", "y", "e", "a", "r">>,
       <<"a", "n", "n", "u", "a", "l">>,
       <<"/", "y", "e", "a", "r">>,
       <<"k">>,
       <<"/", "h", "r">>,
       <<"/", "h", "o", "u", "r">> >>

\* \$[\d,]+ matches s at position i
AmountAt(s, i) == LitAt(s, i, Lit_dollar) /\ RunEnd(s, i + 1, Digits \cup {","}) >= i + 1

\* the position after that match
AmountEnd(s, i) == RunEnd(s, i + 1, Digits \cup {","}) + 1

\* the position after (?:\s*-\s*\$[\d,]+)? matched at position a
AfterRange(s, a) ==
    LET dash == RunEnd(s, a, SpaceChars) + 1
        amount == RunEnd(s, dash + 1, SpaceChars) + 1
    IN IF LitAt(s, dash, Lit_dash) /\ AmountAt(s, amount) THEN AmountEnd(s, amount) ELSE a

\* the position after (?:\s*(?:units))? matched at position a
AfterUnit(s, a) ==
    IF AfterAnyLit(s, RunEnd(s, a, SpaceChars) + 1, SalaryUnits) # 0
    THEN AfterAnyLit(s, RunEnd(s, a, SpaceChars) + 1, SalaryUnits)
    ELSE a

\* r"(?:\$[\d,]+(?:\s*-\s*\$[\d,]+)?(?:...)?)" matches somewhere in s
BareAmount(s) == \E i \in 1..Len(s) : AmountAt(s, i)

\* where the amount of  \s*(?:salary of)?\s*(\$...)  begins when matched at
\* position a (0: no match)
SoughtAmountAt(s, a) ==
    LET word == RunEnd(s, a, SpaceChars) + 1
        amount == IF LitAt(s, word, Lit_salary_of)
                  THEN RunEnd(s, word + Len(Lit_salary_of), SpaceChars) + 1
                  ELSE word
    IN IF a >= 1 /\ AmountAt(s, amount) THEN amount ELSE 0

\* group(1) of the second candidate pattern searched in text
SoughtAmount(text) ==
    LET s == lower(text)
        At == [i \in 1..Len(s) |->
                  IF AfterAnyLit(s, i, SeekingWords) = 0 THEN 0
                  ELSE SoughtAmountAt(s, AfterAnyLit(s, i, SeekingWords))]
        hits == {i \in DOMAIN At : At[i] # 0}
    IN IF hits = {} THEN NoMatch
       ELSE SubSeq(text, At[Least(hits)],
                   AfterUnit(s, AfterRange(s, AmountEnd(s, At[Least(hits)]))) - 1)

\* salary = match.group(1).strip(); re.sub(r'\s+', ' ', salary)
CleanSalary(group) == SubSpaces(strip(group))

\* the loop over the three job patterns; the third has no group
JobSalary(text, first, second) ==
    IF first # NoMatch THEN CleanSalary(first)
    ELSE IF second # NoMatch THEN CleanSalary(second)
    ELSE IF BareAmount(text) THEN IndexError
    ELSE Str_NotSpecified

\* the loop over the two candidate patterns
CandidateSalary(first, second) ==
    IF first # NoMatch THEN CleanSalary(first)
    ELSE IF second # NoMatch THEN CleanSalary(second)
    ELSE Str_NotSpecified

extract_salary(text, post_type) ==
    IF post_type = Str_job
    THEN JobSalary(text, LabelCapture(text, JobSalaryLabels), LabelCapture(text, JobOfferLabels))
    ELSE CandidateSalary(LabelCapture(text, CandidateSalaryLabels), SoughtAmount(text))

----------------------------------------------------------------------------
(* get_data.clean_text, clean_location, extract_technologies,
   validate_post_data and get_comments *)

Str_Unknown == <<"U", "n", "k", "n", "o", "w", "n">>  \* "Unknown"

Str_https == <<"h", "t", "t", "p", "s", ":", "/", "/">>  \* "https://"

Str_http == <<"h", "t", "t", "p", ":", "/", "/">>  \* "http://"

Field_Location == <<"L", "o", "c", "a", "t", "i", "o", "n">>  \* "Location"

Field_Remote == <<"R", "e", "m", "o", "t", "e">>  \* "Remote"

Field_WillingToRelocate == <<"W", "i", "l", "l", "i", "n", "g", " ", "t", "o", " ", "r", "e", "l", "o", "c", "a", "t", "e">>  \* "Willing to relocate"

Lit_location_colon == <<"l", "o", "c", "a", "t", "i", "o", "n", ":">>  \* "location:"

Lit_first == <<"f", "i", "r", "s", "t">>  \* "first"

Lit_at == <<"@">>  \* "@"

Lit_yes == <<"y", "e", "s">>  \* "yes"

Lit_preferred == <<"p", "r", "e", "f", "e", "r", "r", "e", "d">>  \* "preferred"

Lit_only == <<"o", "n", "l", "y">>  \* "only"

Lit_Banglore == <<"B", "a", "n", "g", "l", "o", "r", "e">>  \* "Banglore"

Str_Bangalore == <<"B", "a", "n", "g", "a", "l", "o", "r", "e">>  \* "Bangalore"

Str_uuid == <<"u", "u", "i", "d", "-">>  \* "uuid-"

\* the characters of the ASCII table from the space to the underscore, in
\* code order
AsciiLow ==
    <<" ", "!", "\"", "#", "$", "%", "&", "'", "(", ")", "*", "+", ",", "-", ".", "/", "0", "1", "2", "3", "4", "5", "6", "7", "8", "9", ":", ";", "<", "=", ">", "?", "@", "A", "B", "C", "D", "E", "F", "G", "H", "I", "J", "K", "L", "M", "N", "O", "P", "Q", "R", "S", "T", "U", "V", "W", "X", "Y", "Z", "[", "\\", "]", "^", "_">>

\* and from "a" to the tilde
AsciiHigh ==
    <<"a", "b", "c", "d", "e", "f", "g", "h", "i", "j", "k", "l", "m", "n", "o", "p", "q", "r", "s", "t", "u", "v", "w", "x", "y", "z", "{", "|", "}", "~">>

\* the character of a digit
Ascii_digit(k) == AsciiLow[17 + k]

\* ord(c); a tab, a newline and a return come before every printable character
CharCode(c) ==
    IF c \in Range(AsciiLow) THEN 31 + (CHOOSE i \in DOMAIN AsciiLow : AsciiLow[i] = c)
    ELSE IF c \in Range(AsciiHigh) THEN 96 + (CHOOSE i \in DOMAIN AsciiHigh : AsciiHigh[i] = c)
    ELSE 0

\* a < b for two str
StrLess(a, b) ==
    LET differ == {i \in 1..Min(Len(a), Len(b)) : a[i] # b[i]}
    IN IF differ = {} THEN Len(a) < Len(b)
       ELSE CharCode(a[Least(differ)]) < CharCode(b[Least(differ)])

\* sorted(list(strs)) for a set of str
SortedStrs(strs) ==
    [k \in 1..Cardinality(strs) |->
        CHOOSE x \in strs : Cardinality({y \in strs : StrLess(y, x)}) = k - 1]


\* s.find(sub) + 1
Find(s, sub) == IF Contains(s, sub) THEN Least({i \in 1..Len(s) : LitAt(s, i, sub)}) ELSE 0

\* s from position i on
From(s, i) == SubSeq(s, i, Len(s))

\* the character references of the comments: <<reference, character>>
Entities ==
    << << <<"&", "a", "m", "p", ";">>, "&" >>,
       << <<"&", "l", "t", ";">>, "<" >>,
       << <<"&", "g", "t", ";">>, ">" >>,
       << <<"&", "q", "u", "o", "t", ";">>, "\"" >>,
       << <<"&", "#", "x", "2", "7", ";">>, "'" >>,
       << <<"&", "#", "x", "2", "F", ";">>, "/" >> >>

\* the character reference that begins at position i (0: none does)
EntityAt(s, i) ==
    LET found == {k \in DOMAIN Entities : LitAt(s, i, Entities[k][1])}
    IN IF found = {} THEN 0 ELSE Least(found)

\* html.unescape(s)
RECURSIVE unescape(_)
unescape(s) ==
    LET hits == {i \in 1..Len(s) : EntityAt(s, i) # 0}
    IN IF hits = {} THEN s
       ELSE SubSeq(s, 1, Least(hits) - 1)
                \o <<Entities[EntityAt(s, Least(hits))][2]>>
                \o unescape(From(s, Least(hits) + Len(Entities[EntityAt(s, Least(hits))][1])))

\* a tag begins at position i: "<", a letter or "/", and a ">" further on
TagAt(s, i) ==
    /\ i + 1 <= Len(s)
    /\ s[i] = "<"
    /\ s[i + 1] \in Range(UpperCase) \cup Range(LowerCase) \cup {"/"}
    /\ \E k \in (i + 2)..Len(s) : s[k] = ">"

\* BeautifulSoup(s, "html.parser").get_text() before the character references
\* of the text nodes are decoded
RECURSIVE RemoveTags(_)
RemoveTags(s) ==
    LET hits == {i \in 1..Len(s) : TagAt(s, i)}
    IN IF hits = {} THEN s
       ELSE SubSeq(s, 1, Least(hits) - 1)
                \o RemoveTags(From(s, Least({k \in (Least(hits) + 2)..Len(s) : s[k] = ">"}) + 1))

\* BeautifulSoup(s, "html.parser").get_text()
get_text(s) == unescape(RemoveTags(s))

clean_text(text) == strip(get_text(unescape(text)))

\* re.sub(r'^Location:\s*', '', location, flags=re.IGNORECASE)
DropLocationPrefix(location) ==
    IF LitAt(lower(location), 1, Lit_location_colon)
    THEN From(location, RunEnd(location, Len(Lit_location_colon) + 1, SpaceChars) + 1)
    ELSE location

\* \s*\([^)]*\) matches s at position i
ParenAt(s, i) ==
    /\ RunEnd(s, i, SpaceChars) + 1 <= Len(s)
    /\ s[RunEnd(s, i, SpaceChars) + 1] = "("
    /\ \E k \in (RunEnd(s, i, SpaceChars) + 2)..Len(s) : s[k] = ")"

\* the last position of that match
ParenEnd(s, i) == Least({k \in (RunEnd(s, i, SpaceChars) + 2)..Len(s) : s[k] = ")"})

\* re.sub(r'\s*\([^)]*\)', '', s)
RECURSIVE DropParens(_)
DropParens(s) ==
    LET hits == {i \in 1..Len(s) : ParenAt(s, i)}
    IN IF hits = {} THEN s
       ELSE SubSeq(s, 1, Least(hits) - 1) \o DropParens(From(s, ParenEnd(s, Least(hits)) + 1))

\* the position after Remote[- ]?first matched at position i (0: no match)
RemoteFirstEnd(s, i) ==
    IF ~LitAt(s, i, lower(Field_Remote)) THEN 0
    ELSE IF i + 6 <= Len(s) /\ s[i + 6] \in {"-", " "} /\ LitAt(s, i + 7, Lit_first)
         THEN i + 7 + Len(Lit_first)
    ELSE IF LitAt(s, i + 6, Lit_first) THEN i + 6 + Len(Lit_first)
    ELSE 0

\* re.sub(r'Remote[- ]?first', '', s, flags=re.IGNORECASE)
RECURSIVE DropRemoteFirst(_)
DropRemoteFirst(s) ==
    LET hits == {i \in 1..Len(s) : RemoteFirstEnd(lower(s), i) # 0}
    IN IF hits = {} THEN s
       ELSE SubSeq(s, 1, Least(hits) - 1)
                \o DropRemoteFirst(From(s, RemoteFirstEnd(lower(s), Least(hits))))

\* re.sub(r'Banglore', 'Bangalore', s)
RECURSIVE FixBangalore(_)
FixBangalore(s) ==
    IF ~Contains(s, Lit_Banglore) THEN s
    ELSE SubSeq(s, 1, Find(s, Lit_Banglore) - 1) \o Str_Bangalore
             \o FixBangalore(From(s, Find(s, Lit_Banglore) + Len(Lit_Banglore)))

\* re.sub(r'[,/].*$', '', s) for a str without a newline
CutAtSeparator(s) == SubSeq(s, 1, RunEndNot(s, 1, {",", "/"}))

clean_location(location) ==
    IF ~Truthy(location) THEN EmptyStr
    ELSE strip(CutAtSeparator(FixBangalore(DropRemoteFirst(DropParens(DropLocationPrefix(location))))))

\* the alternatives of tech_patterns, a trailing  s?  written as two words
TechKeywords ==
    << <<"p", "y", "t", "h", "o", "n">>,
       <<"j", "a", "v", "a", "s", "c", "r", "i", "p", "t">>,
       <<"t", "y", "p", "e", "s", "c", "r", "i", "p", "t">>,
       <<"n", "o", "d", "e", ".", "j", "s">>,
       <<"n", "o", "d", "e", ".", "j">>,
       <<"r", "e", "a", "c", "t">>,
       <<"v", "u", "e", ".", "j", "s">>,
       <<"v", "u", "e", ".", "j">>,
       <<"a", "n", "g", "u", "l", "a", "r">>,
       <<"n", "e", "x", "t", ".", "j", "s">>,
       <<"n", "e", "x", "t", ".", "j">>,
       <<"r", "u", "b", "y">>,
       <<"r", "a", "i", "l", "s">>,
       <<"d", "j", "a", "n", "g", "o">>,
       <<"f", "l", "a", "s", "k">>,
       <<"e", "x", "p", "r", "e", "s", "s">>,
       <<"p", "h", "p">>,
       <<"l", "a", "r", "a", "v", "e", "l">>,
       <<"j", "a", "v", "a">>,
       <<"k", "o", "t", "l", "i", "n">>,
       <<"s", "w", "i", "f", "t">>,
       <<"g", "o">>,
       <<"r", "u", "s", "t">>,
       <<"c", "+", "+">>,
       <<"c", "#">>,
       <<".", "n", "e", "t">>,
       <<"s", "q", "l">>,
       <<"m", "y", "s", "q", "l">>,
       <<"p", "o", "s", "t", "g", "r", "e", "s", "q", "l">>,
       <<"m", "o", "n", "g", "o", "d", "b">>,
       <<"r", "e", "d", "i", "s">>,
       <<"a", "w", "s">>,
       <<"g", "c", "p">>,
       <<"a", "z", "u", "r", "e">>,
       <<"d", "o", "c", "k", "e", "r">>,
       <<"k", "u", "b", "e", "r", "n", "e", "t", "e", "s">>,
       <<"l", "i", "n", "u", "x">>,
       <<"g", "i", "t">>,
       <<"h", "t", "m", "l">>,
       <<"c", "s", "s">>,
       <<"t", "a", "i", "l", "w", "i", "n", "d">>,
       <<"b", "o", "o", "t", "s", "t", "r", "a", "p">>,
       <<"r", "e", "s", "t">>,
       <<"g", "r", "a", "p", "h", "q", "l">>,
       <<"w", "e", "b", "s", "o", "c", "k", "e", "t">>,
       <<"g", "r", "p", "c">>,
       <<"c", "i", "/", "c", "d">>,
       <<"d", "e", "v", "o", "p", "s">>,
       <<"m", "a", "c", "h", "i", "n", "e", " ", "l", "e", "a", "r", "n", "i", "n", "g">>,
       <<"a", "i">>,
       <<"t", "e", "n", "s", "o", "r", "f", "l", "o", "w">>,
       <<"p", "y", "t", "o", "r", "c", "h">>,
       <<"p", "a", "n", "d", "a", "s">>,
       <<"n", "u", "m", "p", "y">>,
       <<"s", "c", "i", "k", "i", "t", "-", "l", "e", "a", "r", "n">> >>

\* the dict of common variations, .get(tech, tech)
TechAlias(tech) ==
    IF tech = <<"n", "o", "d", "e", ".", "j", "s">> THEN <<"n", "o", "d", "e">>
    ELSE IF tech = <<"v", "u", "e", ".", "j", "s">> THEN <<"v", "u", "e">>
    ELSE IF tech = <<"n", "e", "x", "t", ".", "j", "s">> THEN <<"n", "e", "x", "t", "j", "s">>
    ELSE IF tech = <<"r", "e", "a", "c", "t", ".", "j", "s">> THEN <<"r", "e", "a", "c", "t">>
    ELSE IF tech = <<".", "n", "e", "t">> THEN <<"d", "o", "t", "n", "e", "t">>
    ELSE tech

\* none of the words is a version number, so the last filter keeps them all
get_data_extract_technologies(text) ==
    SortedStrs({TechAlias(TechKeywords[k]) :
                   k \in {j \in DOMAIN TechKeywords : HasWord(lower(text), TechKeywords[j])}})

EmailLocalChars == WordChars \cup {".", "%", "+", "-"}

EmailDomainChars == (WordChars \ {"_"}) \cup {".", "-"}

\* the class [A-Z|a-z]
EmailTldChars == Range(UpperCase) \cup Range(LowerCase) \cup {"|"}

\* the last position of [A-Z|a-z]{2,}\b matched after the dot at q (0: no match)
TldEnd(text, q) ==
    LET ends == {e \in (q + 2)..RunEnd(text, q + 1, EmailTldChars) : Boundary(text, e + 1)}
    IN IF ends = {} THEN 0 ELSE Greatest(ends)

\* the last position of the domain of an address whose local part ends at
\* local (0: no match): the last dot of the run that a top-level name follows
DomainEnd(text, local) ==
    LET dots == {q \in (local + 3)..RunEnd(text, local + 2, EmailDomainChars) :
                    text[q] = "." /\ TldEnd(text, q) # 0}
    IN IF dots = {} THEN 0 ELSE TldEnd(text, Greatest(dots))

\* the last position of email_pattern matched at position i (0: no match)
EmailEnd(text, i) ==
    IF /\ Boundary(text, i)
       /\ RunEnd(text, i, EmailLocalChars) >= i
       /\ LitAt(text, RunEnd(text, i, EmailLocalChars) + 1, Lit_at)
    THEN DomainEnd(text, RunEnd(text, i, EmailLocalChars))
    ELSE 0

\* email_match.group(0) if email_match else None
EmailOf(text) ==
    LET hits == {i \in 1..Len(text) : EmailEnd(text, i) # 0}
    IN IF hits = {} THEN None ELSE SubSeq(text, Least(hits), EmailEnd(text, Least(hits)))

\* "Yes" if remote_match and any(word in group(0).lower() ...) else "No"
RemoteOf(line) ==
    IF line # NoMatch /\ \E word \in {Lit_yes, Lit_preferred, Lit_only} : Contains(lower(line), word)
    THEN Str_Yes ELSE Str_No

\* (?:Resume|CV|Résumé)
ResumeWords ==
    << <<"r", "e", "s", "u", "m", "e">>,
       <<"c", "v">>,
       <<"r", "é", "s", "u", "m", "é">> >>

\* https?://\S+ matches s at position u
UrlAt(s, u) ==
    \/ LitAt(s, u, Str_https) /\ u + Len(Str_https) <= Len(s) /\ s[u + Len(Str_https)] \notin SpaceChars
    \/ LitAt(s, u, Str_http) /\ u + Len(Str_http) <= Len(s) /\ s[u + Len(Str_http)] \notin SpaceChars

\* the links [^\n]* can stop at, after a word ending before position a
LinksAfter(s, a) == {u \in a..RunEndNot(s, a, {"\n"}) : UrlAt(s, u)}

\* group(0) of resume_pattern searched in text with IGNORECASE: from the
\* leftmost word with a link on the rest of its line to the end of the last
\* such link
ResumeMatch(text) ==
    LET s == lower(text)
        hits == {i \in 1..Len(s) : AfterAnyLit(s, i, ResumeWords) # 0
                                     /\ LinksAfter(s, AfterAnyLit(s, i, ResumeWords)) # {}}
    IN IF hits = {} THEN NoMatch
       ELSE SubSeq(text, Least(hits),
                   RunEndNot(s, Greatest(LinksAfter(s, AfterAnyLit(s, Least(hits), ResumeWords))),
                             SpaceChars))

\* group.split("https://", 1)[1].strip()
SplitHttps(group) ==
    IF ~Contains(group, Str_https) THEN IndexError
    ELSE strip(From(group, Find(group, Str_https) + Len(Str_https)))

\* resume, IndexError when the subscript raises
ResumeOf(group) ==
    IF group = NoMatch THEN None
    ELSE IF SplitHttps(group) = IndexError THEN IndexError
    ELSE IF Truthy(SplitHttps(group)) THEN Str_https \o SplitHttps(group)
    ELSE SplitHttps(group)

\* validate_post_data left by the IndexError of the resume line
PostIndexError == [raised |-> "IndexError"]

\* the dict validate_post_data returns
ValidatedPost(post_data, thread_id, post_type, location, resume) ==
    IF resume = IndexError THEN PostIndexError
    ELSE [id |-> post_data.id,
          author |-> post_data.author,
          text |-> post_data.text,
          time |-> post_data.time,
          type |-> post_type,
          thread_id |-> thread_id,
          location |-> IF Truthy(location) THEN location ELSE Str_Unknown,
          remote |-> RemoteOf(FieldLine(post_data.text, Field_Remote)),
          willing_to_relocate |-> Or(extract_field(post_data.text, Field_WillingToRelocate), Str_No),
          technologies |-> get_data_extract_technologies(post_data.text),
          email |-> EmailOf(post_data.text),
          resume |-> resume,
          experience |-> IF post_type = Str_candidate
                         THEN extract_years_of_experience(post_data.text)
                         ELSE None]

\* the location line, or "" for no match
LocationLine(text) ==
    IF FieldLine(text, Field_Location) = NoMatch THEN EmptyStr ELSE FieldLine(text, Field_Location)

validate_post_data(post_data, thread_id, post_type) ==
    ValidatedPost(post_data, thread_id, post_type,
                  clean_location(LocationLine(post_data.text)),
                  ResumeOf(ResumeMatch(post_data.text)))

----------------------------------------------------------------------------
(* get_data.get_comments *)

MAX_POSTS == 25

WHO_IS_HIRING_THREAD_ID == 43243022

WHO_WANTS_TO_BE_HIRED_THREAD_ID == 43243024

\* get_item's None, in the place of a dict
NoItem == [none |-> TRUE]

\* get_item(item_id) for the response to the request
get_item(response) == IF response.status_code = 200 THEN response.json ELSE NoItem

\* str(uuid.uuid4()) of the k-th comment of a call: a fresh value each time
Uuid(k) == Str_uuid \o <<Ascii_digit(k)>>

\* one turn of the loop over thread['kids']: run is the call so far
CommentStep(run, comment, k, thread_id, type, post_data) ==
    IF run.raised \/ Len(run.comments_list) >= MAX_POSTS THEN run
    ELSE IF ~(comment # NoItem /\ "text" \in DOMAIN comment) THEN run
    ELSE IF post_data = PostIndexError THEN [run EXCEPT !.raised = TRUE]
    ELSE IF DOMAIN post_data # {}
         THEN [run EXCEPT !.comments_list = Append(@, post_data)]
    ELSE [run EXCEPT !.skipped_count = @ + 1]

\* the dict that get_comments hands to validate_post_data
PostData(comment, k, thread_id, type) ==
    [id |-> Uuid(k),
     author |-> IF "by" \in DOMAIN comment THEN comment.by ELSE Str_Unknown,
     text |-> clean_text(comment.text),
     time |-> comment.time,
     type |-> type,
     thread_id |-> IF "parent" \in DOMAIN comment THEN comment.parent ELSE thread_id]

\* validate_post_data's result for a comment with a text
PostOf(comment, k, thread_id, type) ==
    IF comment # NoItem /\ "text" \in DOMAIN comment
    THEN validate_post_data(PostData(comment, k, thread_id, type), thread_id, type)
    ELSE NoItem

\* the loop over the first k kids
RECURSIVE CommentLoop(_, _, _, _)
CommentLoop(kids, k, thread_id, type) ==
    IF k = 0 THEN [comments_list |-> <<>>, skipped_count |-> 0, raised |-> FALSE]
    ELSE CommentStep(CommentLoop(kids, k - 1, thread_id, type), get_item(kids[k]), k,
                     thread_id, type, PostOf(get_item(kids[k]), k, thread_id, type))

\* get_comments for the responses to its requests: that for the thread, whose
\* kids stand for the responses to the requests for them
get_comments(thread_response, thread_id, type) ==
    IF get_item(thread_response) = NoItem \/ "kids" \notin DOMAIN get_item(thread_response)
    THEN [comments_list |-> <<>>, skipped_count |-> 0, raised |-> FALSE]
    ELSE CommentLoop(get_item(thread_response).kids, Len(get_item(thread_response).kids),
                     thread_id, type)

\* the thread that get_comments is called for with a post type
ThreadIdOf(type) ==
    IF type = Str_job THEN WHO_IS_HIRING_THREAD_ID ELSE WHO_WANTS_TO_BE_HIRED_THREAD_ID

----------------------------------------------------------------------------
(* the comments the functions of get_data are applied to *)

\* the most lines of a text
MaxLines == 2

\* the most comments of a thread
MaxKids == 2

\* the lines the texts are made of
TextLines ==
    << \* 7 years of experience
       <<"7", " ", "y", "e", "a", "r", "s", " ", "o", "f", " ", "e", "x", "p", "e", "r", "i", "e", "n", "c", "e">>,
       \* Senior engineer
       <<"S", "e", "n", "i", "o", "r", " ", "e", "n", "g", "i", "n", "e", "e", "r">>,
       \* Experience: open to anything
       <<"E", "x", "p", "e", "r", "i", "e", "n", "c", "e", ":", " ", "o", "p", "e", "n", " ", "t", "o", " ", "a", "n", "y", "t", "h", "i", "n", "g">>,
       \* experience: 3+ yrs
       <<"e", "x", "p", "e", "r", "i", "e", "n", "c", "e", ":", " ", "3", "+", " ", "y", "r", "s">>,
       \* $100,000
       <<"$", "1", "0", "0", ",", "0", "0", "0">>,
       \* Salary: $90k - $120k
       <<"S", "a", "l", "a", "r", "y", ":", " ", "$", "9", "0", "k", " ", "-", " ", "$", "1", "2", "0", "k">>,
       \* seeking $80k per year
       <<"s", "e", "e", "k", "i", "n", "g", " ", "$", "8", "0", "k", " ", "p", "e", "r", " ", "y", "e", "a", "r">>,
       \* Education: none
       <<"E", "d", "u", "c", "a", "t", "i", "o", "n", ":", " ", "n", "o", "n", "e">>,
       \* Looking for work
       <<"L", "o", "o", "k", "i", "n", "g", " ", "f", "o", "r", " ", "w", "o", "r", "k">> >>

\* the texts of n lines, none twice
RECURSIVE TextsOf(_)
TextsOf(n) ==
    IF n = 1 THEN {TextLines[i] : i \in DOMAIN TextLines}
    ELSE {p[1] \o <<"\n">> \o TextLines[p[2]] :
             p \in {q \in TextsOf(n - 1) \X DOMAIN TextLines : ~Contains(q[1], TextLines[q[2]])}}

\* the empty text and the texts of up to MaxLines lines
TextPool == {EmptyStr} \cup UNION {TextsOf(n) : n \in 1..MaxLines}

\* the 'text' of the comments, as the API returns it
RawTexts ==
    << \* Location: Berlin<p>Remote: yes<p>jo@ex.com
       <<"L", "o", "c", "a", "t", "i", "o", "n", ":", " ", "B", "e", "r", "l", "i", "n", "<", "p", ">", "R", "e", "m", "o", "t", "e", ":", " ", "y", "e", "s", "<", "p", ">", "j", "o", "@", "e", "x", ".", "c", "o", "m">>,
       \* Looking for work
       <<"L", "o", "o", "k", "i", "n", "g", " ", "f", "o", "r", " ", "w", "o", "r", "k">>,
       \* CV: http:&#x2F;&#x2F;x.io
       <<"C", "V", ":", " ", "h", "t", "t", "p", ":", "&", "#", "x", "2", "F", ";", "&", "#", "x", "2", "F", ";", "x", ".", "i", "o">>,
       \* the empty text
       <<>>,
       \* SF &amp; NYC | Go | CV: https:&#x2F;&#x2F;x.io
       <<"S", "F", " ", "&", "a", "m", "p", ";", " ", "N", "Y", "C", " ", "|", " ", "G", "o", " ", "|", " ", "C", "V", ":", " ", "h", "t", "t", "p", "s", ":", "&", "#", "x", "2", "F", ";", "&", "#", "x", "2", "F", ";", "x", ".", "i", "o">> >>

Str_alice == <<"a", "l", "i", "c", "e">>

\* the responses to the requests for a comment: a failure, a deleted
\* comment without a text, and a comment for each of the texts
CommentResponses ==
    {[status_code |-> 404]}
        \cup {[status_code |-> 200, json |-> [deleted |-> TRUE, time |-> 1]]}
        \cup {[status_code |-> 200, json |-> [by |-> Str_alice, text |-> RawTexts[i], time |-> i]] :
                  i \in DOMAIN RawTexts}

\* the lists of up to n of them
RECURSIVE KidLists(_)
KidLists(n) ==
    IF n = 0 THEN {<<>>}
    ELSE KidLists(n - 1) \cup {Append(kids, c) : kids \in KidLists(n - 1), c \in CommentResponses}

\* the responses to the request for the thread
ThreadResponses ==
    {[status_code |-> 404], [status_code |-> 200, json |-> [time |-> 0]]}
        \cup {[status_code |-> 200, json |-> [time |-> 0, kids |-> kids]] : kids \in KidLists(MaxKids)}

DataInit ==
    /\ comment_type \in {Str_job, Str_candidate}
    /\ comment_text = None
    /\ extracted = None
    /\ thread = None
    /\ comments_list = None
    /\ skipped_count = None
    /\ candidate = None
    /\ job = None
    /\ match_result = None
    /\ candidates = None
    /\ jobs = None
    /\ min_score = None
    /\ matches = None
    /\ job_posts = None
    /\ results = None
    /\ pc = "data"
    /\ re_inline_flags = None
    /\ candidate_comments = None
    /\ job_comments = None
    /\ result_file = None
    /\ points = None
    /\ scored_candidates = None
    /\ technologies_found = None
    /\ found_tech = None
    /\ cleaned_text = None
    /\ hiring_posts = None
    /\ candidate_posts = None
    /\ all_posts = None
    /\ total_candidates = None
    /\ total_jobs = None
    /\ processed_batches = None
    /\ environ = None
    /\ script_runs = None
    /\ printed = None

dataRest == <<candidate, job, match_result, candidates, jobs, min_score, matches, blendVars, pipeVars, moreVars>>

ExtractYearsOfExperience ==
    /\ pc = "data"
    /\ \E t \in TextPool :
           /\ comment_text' = t
           /\ extracted' = extract_years_of_experience(t)
    /\ pc' = "years"
    /\ UNCHANGED <<comment_type, thread, comments_list, skipped_count, dataRest>>

ExtractCandidateSpecificData ==
    /\ pc = "data"
    /\ \E t \in TextPool :
           /\ comment_text' = t
           /\ extracted' = extract_candidate_specific_data(t)
    /\ pc' = "specific"
    /\ UNCHANGED <<comment_type, thread, comments_list, skipped_count, dataRest>>

ExtractSalary ==
    /\ pc = "data"
    /\ \E t \in TextPool :
           /\ comment_text' = t
           /\ extracted' = extract_salary(t, comment_type)
    /\ pc' = "salary"
    /\ UNCHANGED <<comment_type, thread, comments_list, skipped_count, dataRest>>

\* validate_post_data for a post of the text
ValidatePostData ==
    /\ pc = "data"
    /\ \E t \in TextPool :
           /\ comment_text' = t
           /\ extracted' = validate_post_data(
                  [id |-> Uuid(1), author |-> Str_alice, text |-> t, time |-> 1,
                   type |-> comment_type, thread_id |-> ThreadIdOf(comment_type)],
                  ThreadIdOf(comment_type), comment_type)
    /\ pc' = "validated"
    /\ UNCHANGED <<comment_type, thread, comments_list, skipped_count, dataRest>>

\* the state get_comments leaves for a response to the request for the
\* thread; an IndexError leaves it without a list
Returned(response, run) ==
    /\ thread' = response
    /\ comments_list' = IF run.raised THEN PostIndexError ELSE run.comments_list
    /\ skipped_count' = run.skipped_count
    /\ pc' = IF run.raised THEN "raised" ELSE "fetched"

GetComments ==
    /\ pc = "data"
    /\ \E response \in ThreadResponses :
           Returned(response, get_comments(response, ThreadIdOf(comment_type), comment_type))
    /\ UNCHANGED <<comment_type, comment_text, extracted, dataRest>>

DataNext ==
    \/ ExtractYearsOfExperience
    \/ ExtractCandidateSpecificData
    \/ ExtractSalary
    \/ ValidatePostData
    \/ GetComments

DataSpec == DataInit /\ [][DataNext]_vars

----------------------------------------------------------------------------
(* get_data.match_candidates_for_job: the candidates of the collection     *)
(* ranked for one job.  A payload holds 'technologies' as a list of names  *)
(* compared whole, 'location' and 'remote' as str.                         *)

\* payload.get(key)
Get(payload, key) == IF key \in DOMAIN payload THEN payload[key] ELSE None

\* set(payload.get('technologies', []))
TechSetOf(payload) ==
    IF "technologies" \in DOMAIN payload THEN Range(payload.technologies) ELSE {}

\* int((len(matching_techs) / len(job_techs)) * 100), 0 for a job without
\* technologies
match_percentage(job_techs, matching_techs) ==
    IF job_techs # {}
    THEN FloatToInt(FloatMul(FloatDiv(Cardinality(matching_techs), Cardinality(job_techs)), 100))
    ELSE 0

\* the 10 for remote "Yes" on both sides
RemoteBonus(job_payload, candidate_payload) ==
    IF Get(job_payload, "remote") = Str_Yes /\ Get(candidate_payload, "remote") = Str_Yes
    THEN 10 ELSE 0

\* the 10 for two locations of which one is within the other
LocationBonus(job_location, candidate_location) ==
    IF /\ Truthy(job_location)
       /\ Truthy(candidate_location)
       /\ \/ Contains(lower(candidate_location), lower(job_location))
          \/ Contains(lower(job_location), lower(candidate_location))
    THEN 10 ELSE 0

\* bonus after the two tests
bonus(job_payload, candidate_payload) ==
    RemoteBonus(job_payload, candidate_payload)
        + LocationBonus(Get(job_payload, "location"), Get(candidate_payload, "location"))

\* total_score = match_percentage + bonus
total_score(job_payload, candidate_payload) ==
    match_percentage(TechSetOf(job_payload),
                     TechSetOf(job_payload) \cap TechSetOf(candidate_payload))
        + bonus(job_payload, candidate_payload)

\* the dict appended to scored_candidates
ScoredCandidate(job_point, candidate_point) ==
    [candidate |-> candidate_point,
     score |-> total_score(job_point.payload, candidate_point.payload),
     matching_techs |-> TechSetOf(job_point.payload) \cap TechSetOf(candidate_point.payload)]

\* the keys lambda x: x['score'] gives the entries
ScoresOf(entries) == [i \in DOMAIN entries |-> entries[i].score]

\* scored_candidates after the loop and the sort
ScoredCandidates(job_point, all_candidates) ==
    SortDescending([i \in DOMAIN all_candidates |-> ScoredCandidate(job_point, all_candidates[i])],
                   ScoresOf([i \in DOMAIN all_candidates |->
                                ScoredCandidate(job_point, all_candidates[i])]))

\* scored_candidates[:limit], for a limit that is not negative
TopCandidates(entries, limit) == SubSeq(entries, 1, Min(limit, Len(entries)))

\* the list returned: empty where the job is not found, else the
\* candidates of the top entries
match_candidates_for_job(job_results, all_candidates, limit) ==
    IF job_results = <<>> THEN <<>>
    ELSE [i \in DOMAIN TopCandidates(ScoredCandidates(job_results[1], all_candidates), limit) |->
             TopCandidates(ScoredCandidates(job_results[1], all_candidates), limit)[i].candidate]

\* the most candidates the scroll returns
MaxScrolled == 2

\* the job points the first scroll may return
JobPoints ==
    { [id |-> 11, payload |-> [author |-> "acme", technologies |-> <<"docker", "python", "react">>,
                               location |-> Str_Berlin, remote |-> Str_Yes]],
      [id |-> 12, payload |-> [author |-> "bolt", technologies |-> <<>>,
                               location |-> Str_Unknown, remote |-> Str_Yes]],
      [id |-> 13, payload |-> [author |-> "core", technologies |-> <<"go", "python", "sql">>,
                               location |-> Str_PARIS, remote |-> Str_No]],
      [id |-> 14, payload |-> [author |-> "dyne", technologies |-> <<"rust">>,
                               location |-> Str_BerlinGermany, remote |-> Str_No]] }

\* the candidate points the second scroll may return
CandidatePoints ==
    { [id |-> 1, payload |-> [author |-> "ann", technologies |-> <<"docker", "python", "react">>,
                              location |-> Str_BerlinGermany, remote |-> Str_Yes]],
      [id |-> 2, payload |-> [author |-> "bob", technologies |-> <<"python">>,
                              location |-> Str_Paris, remote |-> Str_No]],
      [id |-> 3, payload |-> [author |-> "cyd", technologies |-> <<"go", "rust">>,
                              location |-> Str_Unknown, remote |-> Str_Yes]],
      [id |-> 4, payload |-> [author |-> "dee", technologies |-> <<>>,
                              location |-> Str_Berlin, remote |-> Str_No]] }

\* the limits of the calls: the one of __main__ and the default
Limits == {1, 5}

RankInit ==
    /\ job_posts \in {<<>>} \cup {<<point>> : point \in JobPoints}
    /\ candidates \in ListsOf(CandidatePoints, MaxScrolled)
    /\ scored_candidates = None
    /\ results = None
    /\ candidate = None
    /\ job = None
    /\ match_result = None
    /\ jobs = None
    /\ min_score = None
    /\ matches = None
    /\ comment_text = None
    /\ comment_type = None
    /\ extracted = None
    /\ thread = None
    /\ comments_list = None
    /\ skipped_count = None
    /\ re_inline_flags = None
    /\ candidate_comments = None
    /\ job_comments = None
    /\ result_file = None
    /\ points = None
    /\ pc = "rank"
    /\ technologies_found = None
    /\ found_tech = None
    /\ cleaned_text = None
    /\ hiring_posts = None
    /\ candidate_posts = None
    /\ all_posts = None
    /\ total_candidates = None
    /\ total_jobs = None
    /\ processed_batches = None
    /\ environ = None
    /\ script_runs = None
    /\ printed = None

\* the variables no step of match_candidates_for_job writes
restOfRank ==
    <<candidate, job, match_result, jobs, min_score, matches, dataVars, pipeVars, techVars,
      cleanVars, selectVars, batchVars, runVars>>

\* the call where the job is found: job_posts is what the first scroll
\* returns, candidates what the second returns
MatchCandidatesForJob ==
    /\ pc = "rank"
    /\ job_posts # <<>>
    /\ scored_candidates' = ScoredCandidates(job_posts[1], candidates)
    /\ \E limit \in Limits : results' = match_candidates_for_job(job_posts, candidates, limit)
    /\ pc' = "ranked"
    /\ UNCHANGED <<candidates, job_posts, restOfRank>>

\* the call where the job is not found
JobNotFound ==
    /\ pc = "rank"
    /\ job_posts = <<>>
    /\ results' = <<>>
    /\ pc' = "not_found"
    /\ UNCHANGED <<candidates, job_posts, scored_candidates, restOfRank>>

RankNext == MatchCandidatesForJob \/ JobNotFound

RankSpec == RankInit /\ [][RankNext]_vars

----------------------------------------------------------------------------
(* job_matcher.clean_html and extract_candidate_fields *)

Lit_p_tag == <<"<", "p", ">">>  \* "<p>"

Lit_br == <<"<", "b", "r">>  \* "<br"

Str_newline == <<"\n">>  \* "\n"

Lit_skill == <<"s", "k", "i", "l", "l">>  \* "skill"

Lit_cv == <<"c", "v">>  \* "cv"

Lit_resume == <<"r", "e", "s", "u", "m", "e">>  \* "resume"

CANDIDATES_THREAD_ID == <<"4", "3", "2", "4", "3", "0", "2", "2">>  \* "43243022"

JOBS_THREAD_ID == <<"4", "3", "2", "4", "3", "0", "2", "4">>  \* "43243024"

HN_BASE_URL == <<"h", "t", "t", "p", "s", ":", "/", "/", "n", "e", "w", "s", ".", "y", "c", "o", "m", "b", "i", "n", "a", "t", "o", "r", ".", "c", "o", "m", "/", "i", "t", "e", "m", "?", "i", "d", "=">>  \* "https://news.ycombinator.com/item?id="

Str_hash == <<"#">>  \* "#"

\* re.sub of a literal by a str
RECURSIVE SubLit(_, _, _)
SubLit(s, lit, repl) ==
    IF Find(s, lit) = 0 THEN s
    ELSE SubSeq(s, 1, Find(s, lit) - 1) \o repl \o SubLit(From(s, Find(s, lit) + Len(lit)), lit, repl)

\* the last position of <br\s*/?> matched at position i (0: no match)
BrEnd(s, i) ==
    LET w == RunEnd(s, i + Len(Lit_br), SpaceChars) + 1
    IN IF ~LitAt(s, i, Lit_br) THEN 0
       ELSE IF LitAt(s, w, <<"/", ">">>) THEN w + 1
       ELSE IF LitAt(s, w, <<">">>) THEN w
       ELSE 0

\* re.sub(r'<br\s*/?>', '\n', s)
RECURSIVE SubBr(_)
SubBr(s) ==
    LET hits == {i \in 1..Len(s) : BrEnd(s, i) # 0}
    IN IF hits = {} THEN s
       ELSE SubSeq(s, 1, Least(hits) - 1) \o Str_newline \o SubBr(From(s, BrEnd(s, Least(hits)) + 1))

NotDropped(c) == c # "dropped"

\* re.sub of a run of more than keep characters ch by keep of them
DropRuns(s, ch, keep) ==
    SelectSeq([i \in DOMAIN s |->
                  IF s[i] = ch /\ i > keep /\ \A k \in 1..keep : s[i - k] = ch
                  THEN "dropped" ELSE s[i]],
              NotDropped)

clean_html(html_text) ==
    strip(DropRuns(DropRuns(get_text(SubBr(SubLit(html_text, Lit_p_tag, Str_newline))),
                            "\n", 2),
                   " ", 1))

\* the prefix (?:^|\n|\s) matches before position i
AtLabelStart(s, i) == i = 1 \/ (i > 1 /\ i <= Len(s) + 1 /\ s[i - 1] \in SpaceChars)

\* for every position, the position after the first of the labels that
\* matches there behind the prefix (0: none does)
PrefixedAfter(s, labels) ==
    [i \in 1..Len(s) |-> IF AtLabelStart(s, i) THEN AfterAnyLit(s, i, labels) ELSE 0]

\* the same without the prefix
UnprefixedAfter(s, labels) == [i \in 1..Len(s) |-> AfterAnyLit(s, i, labels)]

\* group(1) of  (?i)(?:^|\n|\s)(?:labels)\s*([^\n]+)  searched in text
PrefixedLabelCapture(text, labels) ==
    LeftmostLineCapture(text, PrefixedAfter(lower(text), labels))

\* the class [\w\.-]
AddressChars == WordChars \cup {".", "-"}

\* the last position of [\w\.-]+@[\w\.-]+ matched at position a (0: no match)
AddressEnd(s, a) ==
    IF /\ a >= 1
       /\ RunEnd(s, a, AddressChars) >= a
       /\ LitAt(s, RunEnd(s, a, AddressChars) + 1, Lit_at)
       /\ RunEnd(s, RunEnd(s, a, AddressChars) + 2, AddressChars) >= RunEnd(s, a, AddressChars) + 2
    THEN RunEnd(s, RunEnd(s, a, AddressChars) + 2, AddressChars)
    ELSE 0

\* the last position of https?://[^\s\n]+ matched at position u (0: no match)
LinkEnd(s, u) == IF u >= 1 /\ UrlAt(s, u) THEN RunEndNot(s, u, SpaceChars) ELSE 0

\* group(1) of the leftmost match of  label \s*(value), After[i] being the
\* position after a label that matches at position i, and End[a] the last
\* position of a value that matches at position a (0: none does)
SpacedCapture(text, After_, End) ==
    LET hits == {i \in DOMAIN After_ : After_[i] # 0
                                        /\ End[RunEnd(text, After_[i], SpaceChars) + 1] # 0}
    IN IF hits = {} THEN NoMatch
       ELSE SubSeq(text, RunEnd(text, After_[Least(hits)], SpaceChars) + 1,
                   End[RunEnd(text, After_[Least(hits)], SpaceChars) + 1])

AddressEnds(s) == [a \in 1..(Len(s) + 1) |-> AddressEnd(s, a)]

LinkEnds(s) == [u \in 1..(Len(s) + 1) |-> LinkEnd(s, u)]

\* every pattern is followed by .strip()
Stripped(group) == IF group = NoMatch THEN NoMatch ELSE strip(group)

\* Email:
EmailLabel ==
    << <<"e", "m", "a", "i", "l", ":">> >>

\* (?:Résumé|Resume|CV)(?:/CV)?:
ResumeLabels ==
    << <<"r", "é", "s", "u", "m", "é", "/", "c", "v", ":">>,
       <<"r", "é", "s", "u", "m", "é", ":">>,
       <<"r", "e", "s", "u", "m", "e", "/", "c", "v", ":">>,
       <<"r", "e", "s", "u", "m", "e", ":">>,
       <<"c", "v", "/", "c", "v", ":">>,
       <<"c", "v", ":">> >>

\* (?:résumé|resume|cv)(?:/cv)?:?
ResumeWordLabels ==
    << <<"r", "é", "s", "u", "m", "é", "/", "c", "v", ":">>,
       <<"r", "é", "s", "u", "m", "é", "/", "c", "v">>,
       <<"r", "é", "s", "u", "m", "é", ":">>,
       <<"r", "é", "s", "u", "m", "é">>,
       <<"r", "e", "s", "u", "m", "e", "/", "c", "v", ":">>,
       <<"r", "e", "s", "u", "m", "e", "/", "c", "v">>,
       <<"r", "e", "s", "u", "m", "e", ":">>,
       <<"r", "e", "s", "u", "m", "e">>,
       <<"c", "v", "/", "c", "v", ":">>,
       <<"c", "v", "/", "c", "v">>,
       <<"c", "v", ":">>,
       <<"c", "v">> >>

\* (?:contact|e-mail):
ContactLabels ==
    << <<"c", "o", "n", "t", "a", "c", "t", ":">>,
       <<"e", "-", "m", "a", "i", "l", ":">> >>

\* Location:
LocationLabel ==
    << <<"l", "o", "c", "a", "t", "i", "o", "n", ":">> >>

\* Remote:
RemoteLabel ==
    << <<"r", "e", "m", "o", "t", "e", ":">> >>

\* Willing to relocate:
RelocateLabel ==
    << <<"w", "i", "l", "l", "i", "n", "g", " ", "t", "o", " ", "r", "e", "l", "o", "c", "a", "t", "e", ":">> >>

\* Technologies:
TechnologiesLabel ==
    << <<"t", "e", "c", "h", "n", "o", "l", "o", "g", "i", "e", "s", ":">> >>

\* skills?
SkillsWords ==
    << <<"s", "k", "i", "l", "l", "s">>,
       <<"s", "k", "i", "l", "l">> >>

\* tech stack
TechStackWords ==
    << <<"t", "e", "c", "h", " ", "s", "t", "a", "c", "k">> >>

\* proficient in
ProficientWords ==
    << <<"p", "r", "o", "f", "i", "c", "i", "e", "n", "t", " ", "i", "n">> >>

\* patterns["Email"]
EmailMain(text) ==
    Stripped(SpacedCapture(text, PrefixedAfter(lower(text), EmailLabel), AddressEnds(text)))

\* email_patterns[0]
EmailContact(text) ==
    Stripped(SpacedCapture(text, UnprefixedAfter(lower(text), ContactLabels), AddressEnds(text)))

\* email_patterns[1]
EmailBare(text) ==
    LET hits == {a \in 1..Len(text) : AddressEnd(text, a) # 0}
    IN IF hits = {} THEN NoMatch
       ELSE strip(SubSeq(text, Least(hits), AddressEnd(text, Least(hits))))

\* patterns["Resume"]
ResumeMain(text) ==
    Stripped(SpacedCapture(text, PrefixedAfter(lower(text), ResumeLabels), LinkEnds(lower(text))))

\* the positions after (?:résumé|resume|cv)(?:/cv)?:? matched at position i
\* that a link follows
LinkedLabelEnds(s, i) ==
    {i + Len(ResumeWordLabels[k]) :
        k \in {j \in DOMAIN ResumeWordLabels :
                   /\ LitAt(s, i, ResumeWordLabels[j])
                   /\ LinkEnd(s, RunEnd(s, i + Len(ResumeWordLabels[j]), SpaceChars) + 1) # 0}}

\* resume_patterns[0]
ResumeLabelled(text) ==
    LET s == lower(text)
        hits == {i \in 1..Len(s) : LinkedLabelEnds(s, i) # {}}
    IN IF hits = {} THEN NoMatch
       ELSE strip(SubSeq(text, RunEnd(s, Least(LinkedLabelEnds(s, Least(hits))), SpaceChars) + 1,
                         LinkEnd(s, RunEnd(s, Least(LinkedLabelEnds(s, Least(hits))), SpaceChars) + 1)))

\* the position after https?:// matched at position u (0: no match)
SchemeEnd(s, u) ==
    IF LitAt(s, u, Str_https) THEN u + Len(Str_https)
    ELSE IF LitAt(s, u, Str_http) THEN u + Len(Str_http)
    ELSE 0

\* \b(https?://[^\s\n]*(?:resume|cv)[^\s\n]*) matches s at position u
NamedLinkAt(s, u) ==
    /\ Boundary(s, u)
    /\ SchemeEnd(s, u) # 0
    /\ \E j \in SchemeEnd(s, u)..RunEndNot(s, SchemeEnd(s, u), SpaceChars) :
           \/ LitAt(s, j, Lit_resume) /\ j + Len(Lit_resume) - 1 <= RunEndNot(s, SchemeEnd(s, u), SpaceChars)
           \/ LitAt(s, j, Lit_cv) /\ j + Len(Lit_cv) - 1 <= RunEndNot(s, SchemeEnd(s, u), SpaceChars)

\* resume_patterns[1]
ResumeNamedLink(text) ==
    LET s == lower(text)
        hits == {u \in 1..Len(s) : NamedLinkAt(s, u)}
    IN IF hits = {} THEN NoMatch
       ELSE strip(SubSeq(text, Least(hits), RunEndNot(s, SchemeEnd(s, Least(hits)), SpaceChars)))

\* for every position, the position after  words(?:[:\s])  matched there
AfterSeparated(s, words) ==
    [i \in 1..Len(s) |->
        IF /\ AfterAnyLit(s, i, words) # 0
           /\ AfterAnyLit(s, i, words) <= Len(s)
           /\ s[AfterAnyLit(s, i, words)] \in SpaceChars \cup {":"}
        THEN AfterAnyLit(s, i, words) + 1
        ELSE 0]

\* group(1) of the leftmost match of  label([^\.]+), From_[i] being the
\* position after a label that matches at position i
PeriodCapture(text, From_) ==
    LET hits == {i \in DOMAIN From_ : /\ From_[i] # 0
                                       /\ From_[i] <= Len(text)
                                       /\ text[From_[i]] # "."}
    IN IF hits = {} THEN NoMatch
       ELSE SubSeq(text, From_[Least(hits)], RunEndNot(text, From_[Least(hits)], {"."}))

\* tech_patterns[0], [1] and [2]
TechnologiesAfter(text, words) ==
    Stripped(PeriodCapture(text, AfterSeparated(lower(text), words)))

\* the loop over a list of fallback patterns: the first that matches
FirstMatch(captures) ==
    LET matched == {k \in DOMAIN captures : captures[k] # NoMatch}
    IN IF matched = {} THEN NoMatch ELSE captures[Least(matched)]

\* fields[field] of a labelled pattern
Labelled(capture) == IF capture = NoMatch THEN None ELSE capture

\* fields[field] after the fallback patterns, which are tried when the
\* labelled pattern left a falsy value
Cascaded(labelled, fallback) ==
    IF Truthy(labelled) \/ fallback = NoMatch THEN labelled ELSE fallback

\* the fields of a candidate whose comment has the text
CandidateFields(comment, text, today) ==
    [Date |-> today,
     Email |-> Cascaded(Labelled(EmailMain(text)),
                        FirstMatch(<<EmailContact(text), EmailBare(text)>>)),
     Resume |-> Cascaded(Labelled(ResumeMain(text)),
                         FirstMatch(<<ResumeLabelled(text), ResumeNamedLink(text)>>)),
     Location |-> Labelled(Stripped(PrefixedLabelCapture(text, LocationLabel))),
     Remote |-> Labelled(Stripped(PrefixedLabelCapture(text, RemoteLabel))),
     WillingToRelocate |-> Labelled(Stripped(PrefixedLabelCapture(text, RelocateLabel))),
     Technologies |-> Cascaded(Labelled(Stripped(PrefixedLabelCapture(text, TechnologiesLabel))),
                               FirstMatch(<<TechnologiesAfter(text, SkillsWords),
                                            TechnologiesAfter(text, TechStackWords),
                                            TechnologiesAfter(text, ProficientWords)>>)),
     LinkToHN |-> HN_BASE_URL \o CANDIDATES_THREAD_ID \o Str_hash \o comment.id,
     RawText |-> text]

extract_candidate_fields(comment, today) ==
    CandidateFields(comment, clean_html(comment.text), today)

----------------------------------------------------------------------------
(* job_matcher.generate_candidate_summary and generate_job_summary *)

Str_based == <<"-", "b", "a", "s", "e", "d">>  \* "-based"

Str_developer == <<"d", "e", "v", "e", "l", "o", "p", "e", "r">>  \* "developer"

Str_developer_with == <<"d", "e", "v", "e", "l", "o", "p", "e", "r", " ", "w", "i", "t", "h", " ", "s", "k", "i", "l", "l", "s", " ", "i", "n", " ">>  \* "developer with skills in "

Str_and_more == <<",", " ", "a", "n", "d", " ", "m", "o", "r", "e">>  \* ", and more"

Str_comma_space == <<",", " ">>  \* ", "

Str_remote_work == <<"a", "v", "a", "i", "l", "a", "b", "l", "e", " ", "f", "o", "r", " ", "r", "e", "m", "o", "t", "e", " ", "w", "o", "r", "k">>  \* "available for remote work"

Str_willing == <<"w", "i", "l", "l", "i", "n", "g", " ", "t", "o", " ", "r", "e", "l", "o", "c", "a", "t", "e">>  \* "willing to relocate"

Str_who_is == <<"w", "h", "o", " ", "i", "s", " ">>  \* "who is "

Str_and == <<" ", "a", "n", "d", " ">>  \* " and "

Str_space == <<" ">>  \* " "

Str_is_hiring == <<" ", "i", "s", " ", "h", "i", "r", "i", "n", "g">>  \* " is hiring"

Str_Company_is_hiring == <<"C", "o", "m", "p", "a", "n", "y", " ", "i", "s", " ", "h", "i", "r", "i", "n", "g">>  \* "Company is hiring"

Str_for == <<"f", "o", "r", " ">>  \* "for "

Str_in == <<"i", "n", " ">>  \* "in "

Str_remote_options == <<"w", "i", "t", "h", " ", "r", "e", "m", "o", "t", "e", " ", "o", "p", "t", "i", "o", "n", "s">>  \* "with remote options"

Str_using == <<"u", "s", "i", "n", "g", " ">>  \* "using "

Str_with_compensation == <<"w", "i", "t", "h", " ", "c", "o", "m", "p", "e", "n", "s", "a", "t", "i", "o", "n", " ">>  \* "with compensation "

UpperChar(c) ==
    IF c \in Range(LowerCase)
    THEN UpperCase[CHOOSE i \in DOMAIN LowerCase : LowerCase[i] = c]
    ELSE c

\* str.capitalize()
capitalize(s) == [i \in DOMAIN s |-> IF i = 1 THEN UpperChar(s[i]) ELSE LowerChar(s[i])]

\* s.split(sep) for a one-character sep, and re.split of a class of characters
RECURSIVE Split(_, _)
Split(s, seps) ==
    IF \A i \in DOMAIN s : s[i] \notin seps THEN <<s>>
    ELSE <<SubSeq(s, 1, RunEndNot(s, 1, seps))>> \o Split(From(s, RunEndNot(s, 1, seps) + 2), seps)

\* sep.join(parts)
RECURSIVE Join(_, _)
Join(parts, sep) ==
    IF parts = <<>> THEN EmptyStr
    ELSE IF Len(parts) = 1 THEN parts[1]
    ELSE parts[1] \o sep \o Join(Tail(parts), sep)

\* the part of a summary for a list of technologies
TechSummary(technologies, tech_list, lead) ==
    IF Len(tech_list) > 3
    THEN lead \o Join(SubSeq(tech_list, 1, 3), Str_comma_space) \o Str_and_more
    ELSE lead \o technologies

\* a part that is appended under a condition
Part(condition, part) == IF condition THEN <<part>> ELSE <<>>

\* "yes" in value.lower(), for a value that may be None
SaysYes(value) == Truthy(value) /\ Contains(lower(value), Lit_yes)

preferences(fields) ==
    Part(SaysYes(fields.Remote), Str_remote_work)
        \o Part(SaysYes(fields.WillingToRelocate), Str_willing)

generate_candidate_summary(fields) ==
    capitalize(Join(
        Part(Truthy(fields.Location), fields.Location \o Str_based)
            \o (IF Truthy(fields.Technologies)
                THEN <<TechSummary(fields.Technologies, Split(fields.Technologies, {","}),
                                   Str_developer_with)>>
                ELSE <<Str_developer>>)
            \o Part(preferences(fields) # <<>>, Str_who_is \o Join(preferences(fields), Str_and)),
        Str_space))

location_parts(fields) ==
    Part(Truthy(fields.Location), Str_in \o fields.Location)
        \o Part(Truthy(fields.Remote) /\ ~Contains(lower(fields.Remote), Lit_no), Str_remote_options)

generate_job_summary(fields) ==
    Join(
        (IF Truthy(fields.Company) THEN <<fields.Company \o Str_is_hiring>>
         ELSE <<Str_Company_is_hiring>>)
            \o Part(Truthy(fields.Position), Str_for \o fields.Position)
            \o Part(location_parts(fields) # <<>>, Join(location_parts(fields), Str_space))
            \o (IF Truthy(fields.Technologies)
                THEN <<TechSummary(fields.Technologies, Split(fields.Technologies, {",", ";", "/"}),
                                   Str_using)>>
                ELSE <<>>)
            \o Part(Truthy(fields.Salary), Str_with_compensation \o fields.Salary),
        Str_space)

----------------------------------------------------------------------------
(* job_matcher.extract_job_fields *)

Lit_http == <<"h", "t", "t", "p">>  \* "http"

Lit_is == <<"i", "s">>  \* "is"

Lit_hiring == <<"h", "i", "r", "i", "n", "g">>  \* "hiring"

Lit_remote == <<"r", "e", "m", "o", "t", "e">>  \* "remote"

\* the class [A-Za-z0-9\s\.\-&]
CompanyChars ==
    Range(UpperCase) \cup Range(LowerCase) \cup Digits \cup SpaceChars \cup {".", "-", "&"}

\* company_patterns[0]: "Company Name | ..."
CompanyBeforeBar(text, run) ==
    IF run >= 1 /\ LitAt(text, run + 1, <<"|">>) /\ run + 2 <= Len(text)
       /\ text[run + 2] \in SpaceChars
    THEN SubSeq(text, 1, run) ELSE NoMatch

\* company_patterns[1]: "Company Name (http..."
CompanyBeforeLink(text, run) ==
    IF run >= 1 /\ LitAt(text, run + 1, <<"(">>)
       /\ LitAt(text, RunEnd(text, run + 2, SpaceChars) + 1, Lit_http)
    THEN SubSeq(text, 1, run) ELSE NoMatch

\* (?:\s+is|\s+hiring|\s*\|) matches text at position a
CompanyEndAt(text, a) ==
    \/ /\ RunEnd(text, a, SpaceChars) >= a
       /\ \/ LitAt(text, RunEnd(text, a, SpaceChars) + 1, Lit_is)
          \/ LitAt(text, RunEnd(text, a, SpaceChars) + 1, Lit_hiring)
    \/ LitAt(text, RunEnd(text, a, SpaceChars) + 1, <<"|">>)

\* company_patterns[2]: the shortest name of 2 to 30 characters before
\* "is", "hiring" or a bar
CompanyLazy(text, run) ==
    LET ends == {k \in 2..Min(30, run) : CompanyEndAt(text, k + 1)}
    IN IF ends = {} THEN NoMatch ELSE SubSeq(text, 1, Least(ends))

\* (?:Engineer|Developer|...|DevOps)
RoleWords ==
    << <<"e", "n", "g", "i", "n", "e", "e", "r">>,
       <<"d", "e", "v", "e", "l", "o", "p", "e", "r">>,
       <<"m", "a", "n", "a", "g", "e", "r">>,
       <<"d", "e", "s", "i", "g", "n", "e", "r">>,
       <<"a", "r", "c", "h", "i", "t", "e", "c", "t">>,
       <<"s", "c", "i", "e", "n", "t", "i", "s", "t">>,
       <<"l", "e", "a", "d">>,
       <<"d", "i", "r", "e", "c", "t", "o", "r">>,
       <<"v", "p">>,
       <<"c", "t", "o">>,
       <<"d", "e", "v", "o", "p", "s">> >>

\* (?:hiring|for|hiring for|seeking|looking for)
HiringWords ==
    << <<"h", "i", "r", "i", "n", "g">>,
       <<"f", "o", "r">>,
       <<"h", "i", "r", "i", "n", "g", " ", "f", "o", "r">>,
       <<"s", "e", "e", "k", "i", "n", "g">>,
       <<"l", "o", "o", "k", "i", "n", "g", " ", "f", "o", "r">> >>

\* the positions a role can begin at in a group ([^|\.]+?(?:roles)[^|\.]+?)
\* that begins at position g: behind one character at least, and with one
\* at least behind it, none of them a bar or a period
RoleStarts(s, g, clean) ==
    {a \in (g + 1)..clean :
        AfterAnyLit(s, a, RoleWords) # 0 /\ AfterAnyLit(s, a, RoleWords) <= clean}

\* the last position of the group that begins at g, followed by
\* (?:\||\.|\n|$), both parts around the role being lazy (0: no match)
RoleGroupEnd(s, g) ==
    LET clean == RunEndNot(s, g, {"|", "."})
    IN IF g < 1 \/ RoleStarts(s, g, clean) = {} THEN 0
       ELSE Least({e \in AfterAnyLit(s, Least(RoleStarts(s, g, clean)), RoleWords)..clean :
                      e = Len(s) \/ s[e + 1] \in {"|", ".", "\n"}})

\* where the group begins behind a greedy separator that may end at any of
\* lo - 1 .. hi - 1 (0: no match)
RoleGroupStart(s, lo, hi) ==
    LET starts == {g \in lo..hi : RoleGroupEnd(s, g) # 0}
    IN IF starts = {} THEN 0 ELSE Greatest(starts)

\* where the group of position_patterns[0] begins when a word of the list
\* matches at position i: the first of the words, in their order, that a
\* group follows
HiringGroupStart(s, i) ==
    LET starts == [j \in DOMAIN HiringWords |->
                      IF LitAt(s, i, HiringWords[j])
                      THEN RoleGroupStart(s, i + Len(HiringWords[j]) + 1,
                               RunEnd(s, i + Len(HiringWords[j]), SpaceChars \cup {":"}) + 1)
                      ELSE 0]
        found == {j \in DOMAIN starts : starts[j] # 0}
    IN IF found = {} THEN 0 ELSE starts[Least(found)]

\* where the group of position_patterns[1] begins behind a bar at position i
BarGroupStart(s, i) ==
    IF LitAt(s, i, <<"|">>) THEN RoleGroupStart(s, i + 1, RunEnd(s, i + 1, SpaceChars) + 1) ELSE 0

\* group(1) of the leftmost match, Start[i] being where the group begins for
\* a match at position i
RoleGroup(text, s, Start) ==
    LET hits == {i \in DOMAIN Start : Start[i] # 0}
    IN IF hits = {} THEN NoMatch
       ELSE SubSeq(text, Start[Least(hits)], RoleGroupEnd(s, Start[Least(hits)]))

PositionAfterHiring(text) ==
    RoleGroup(text, lower(text), [i \in 1..Len(text) |-> HiringGroupStart(lower(text), i)])

PositionAfterBar(text) ==
    RoleGroup(text, lower(text), [i \in 1..Len(text) |-> BarGroupStart(lower(text), i)])

\* (?:Salary|Compensation):
SalaryLabels ==
    << <<"s", "a", "l", "a", "r", "y", ":">>,
       <<"c", "o", "m", "p", "e", "n", "s", "a", "t", "i", "o", "n", ":">> >>

\* (?:pay|salary|compensation|package)
PayWords ==
    << <<"p", "a", "y">>,
       <<"s", "a", "l", "a", "r", "y">>,
       <<"c", "o", "m", "p", "e", "n", "s", "a", "t", "i", "o", "n">>,
       <<"p", "a", "c", "k", "a", "g", "e">> >>

\* (?:friendly|ok|possible|only)
RemoteModes ==
    << <<"f", "r", "i", "e", "n", "d", "l", "y">>,
       <<"o", "k">>,
       <<"p", "o", "s", "s", "i", "b", "l", "e">>,
       <<"o", "n", "l", "y">> >>

\* (?:Tech|Stack|Technologies):
StackLabels ==
    << <<"t", "e", "c", "h", ":">>,
       <<"s", "t", "a", "c", "k", ":">>,
       <<"t", "e", "c", "h", "n", "o", "l", "o", "g", "i", "e", "s", ":">> >>

\* (?:Apply|Application|Contact):
ApplyLabels ==
    << <<"a", "p", "p", "l", "y", ":">>,
       <<"a", "p", "p", "l", "i", "c", "a", "t", "i", "o", "n", ":">>,
       <<"c", "o", "n", "t", "a", "c", "t", ":">> >>

\* (?:tech stack|using|experience with|skills|looking for)
SectionWords ==
    << <<"t", "e", "c", "h", " ", "s", "t", "a", "c", "k">>,
       <<"u", "s", "i", "n", "g">>,
       <<"e", "x", "p", "e", "r", "i", "e", "n", "c", "e", " ", "w", "i", "t", "h">>,
       <<"s", "k", "i", "l", "l", "s">>,
       <<"l", "o", "o", "k", "i", "n", "g", " ", "f", "o", "r">> >>

\* (?:JavaScript|Python|...|Git)
SectionTechs ==
    << <<"j", "a", "v", "a", "s", "c", "r", "i", "p", "t">>,
       <<"p", "y", "t", "h", "o", "n">>,
       <<"r", "e", "a", "c", "t">>,
       <<"a", "n", "g", "u", "l", "a", "r">>,
       <<"v", "u", "e">>,
       <<"n", "o", "d", "e">>,
       <<"d", "j", "a", "n", "g", "o">>,
       <<"f", "l", "a", "s", "k">>,
       <<"r", "u", "b", "y">>,
       <<"r", "a", "i", "l", "s">>,
       <<"p", "h", "p">>,
       <<"l", "a", "r", "a", "v", "e", "l">>,
       <<"a", "w", "s">>,
       <<"g", "c", "p">>,
       <<"a", "z", "u", "r", "e">>,
       <<"s", "q", "l">>,
       <<"n", "o", "s", "q", "l">>,
       <<"m", "o", "n", "g", "o", "d", "b">>,
       <<"m", "y", "s", "q", "l">>,
       <<"p", "o", "s", "t", "g", "r", "e", "s", "q", "l">>,
       <<"d", "o", "c", "k", "e", "r">>,
       <<"k", "u", "b", "e", "r", "n", "e", "t", "e", "s">>,
       <<"c", "i", "/", "c", "d">>,
       <<"g", "i", "t">> >>

\* where a match of the label rule  (?:^|\n|\s)label\s*([^\n]+)  begins, for
\* a label at position i
LabelMatchStart(i) == IF i = 1 THEN 1 ELSE i - 1

\* the positions of the labels that the label rule matches
LabelHits(text, After_) ==
    {i \in DOMAIN After_ : After_[i] # 0 /\ LineCaptureStart(text, After_[i]) # 0}

\* the last position of \b(remote(?:\s+(?:modes))?)\b matched at position i
\* (0: no match)
RemoteWordEnd(s, i) ==
    LET mode == AfterAnyLit(s, RunEnd(s, i + Len(Lit_remote), SpaceChars) + 1, RemoteModes)
    IN IF ~(Boundary(s, i) /\ LitAt(s, i, Lit_remote)) THEN 0
       ELSE IF RunEnd(s, i + Len(Lit_remote), SpaceChars) >= i + Len(Lit_remote)
               /\ mode # 0 /\ Boundary(s, mode)
            THEN mode - 1
       ELSE IF Boundary(s, i + Len(Lit_remote)) THEN i + Len(Lit_remote) - 1
       ELSE 0

\* where the group of  words[:\s]+([^\.]+)  begins for words that end before
\* position k (0: no match): behind the longest run of separators that
\* leaves it a character
ClauseStart(s, k) ==
    LET run == RunEnd(s, k, SpaceChars \cup {":"})
    IN IF k = 0 \/ run < k THEN 0
       ELSE IF run + 1 <= Len(s) /\ s[run + 1] # "." THEN run + 1
       ELSE IF run >= k + 1 THEN run
       ELSE 0

\* the first truthy group of the leftmost match of an alternation of a label
\* rule and a fallback rule: labels are the positions of the labels the
\* first matches, fallbacks the positions the second matches at
Alternation(labels, fallbacks, label_group, fallback_group) ==
    IF labels = {} /\ fallbacks = {} THEN NoMatch
    ELSE IF fallbacks = {} THEN label_group
    ELSE IF labels = {} THEN fallback_group
    ELSE IF LabelMatchStart(Least(labels)) <= Least(fallbacks) THEN label_group
    ELSE fallback_group

\* the positions the fallback rule of patterns["Remote"] matches at
RemoteWordHits(s) == {i \in 1..Len(s) : RemoteWordEnd(s, i) # 0}

\* its group for the leftmost of them
RemoteWordGroup(text, hits) ==
    IF hits = {} THEN NoMatch
    ELSE SubSeq(text, Least(hits), RemoteWordEnd(lower(text), Least(hits)))

\* patterns["Remote"] where an inline flag is accepted behind the bar
RemoteField(text) ==
    Alternation(LabelHits(text, PrefixedAfter(lower(text), RemoteLabel)),
                RemoteWordHits(lower(text)),
                PrefixedLabelCapture(text, RemoteLabel),
                RemoteWordGroup(text, RemoteWordHits(lower(text))))

\* the positions the fallback rule of patterns["Salary"] matches at
PayHits(s) == {i \in 1..Len(s) : ClauseStart(s, AfterAnyLit(s, i, PayWords)) # 0}

\* its group for the leftmost of them
PayGroup(text, hits) ==
    IF hits = {} THEN NoMatch
    ELSE SubSeq(text, ClauseStart(lower(text), AfterAnyLit(lower(text), Least(hits), PayWords)),
                RunEndNot(text, ClauseStart(lower(text), AfterAnyLit(lower(text), Least(hits), PayWords)),
                          {"."}))

\* patterns["Salary"] where an inline flag is accepted behind the bar
SalaryField(text) ==
    Alternation(LabelHits(text, PrefixedAfter(lower(text), SalaryLabels)),
                PayHits(lower(text)),
                PrefixedLabelCapture(text, SalaryLabels),
                PayGroup(text, PayHits(lower(text))))

\* a technology of the list is in the clause that begins at g, behind one
\* character at least and with one at least behind it
TechInClause(s, g) ==
    \E a \in (g + 1)..RunEndNot(s, g, {"."}) :
        AfterAnyLit(s, a, SectionTechs) # 0
            /\ AfterAnyLit(s, a, SectionTechs) <= RunEndNot(s, g, {"."})

\* where the group of the tech_sections pattern begins for a word of the list
\* at position i (0: no match)
SectionStart(s, i) ==
    LET k == AfterAnyLit(s, i, SectionWords)
        starts == {g \in (k + 1)..(RunEnd(s, k, SpaceChars \cup {":"}) + 1) : TechInClause(s, g)}
    IN IF k = 0 \/ starts = {} THEN 0 ELSE Greatest(starts)

\* tech_sections[0].strip(), for a text with a section
FirstSection(text) ==
    LET s == lower(text)
        hits == {i \in 1..Len(s) : SectionStart(s, i) # 0}
    IN IF hits = {} THEN NoMatch
       ELSE strip(SubSeq(text, SectionStart(s, Least(hits)),
                         RunEndNot(s, SectionStart(s, Least(hits)), {"."})))

\* re.split(r'(?<=[.!?])\s+', s)
RECURSIVE Sentences(_)
Sentences(s) ==
    LET gaps == {i \in 2..Len(s) : s[i] \in SpaceChars /\ s[i - 1] \in {".", "!", "?"}}
    IN IF gaps = {} THEN <<s>>
       ELSE <<SubSeq(s, 1, Least(gaps) - 1)>>
                \o Sentences(From(s, RunEnd(s, Least(gaps), SpaceChars) + 1))

\* fields["Description"]
Description(text) ==
    IF ~Truthy(text) THEN None
    ELSE Join(SubSeq(Sentences(text), 1, Min(3, Len(Sentences(text)))), Str_space)

\* re.search leaves extract_job_fields with this error where an inline flag
\* behind the bar of patterns["Remote"] is rejected
ReError == [raised |-> "re.error"]

\* the fields of a job whose comment has the text
JobFields(comment, text, today) ==
    [Date |-> today,
     Company |-> Labelled(Stripped(FirstMatch(
                     <<CompanyBeforeBar(text, RunEnd(text, 1, CompanyChars)),
                       CompanyBeforeLink(text, RunEnd(text, 1, CompanyChars)),
                       CompanyLazy(text, RunEnd(text, 1, CompanyChars))>>))),
     Position |-> Labelled(Stripped(FirstMatch(
                     <<PositionAfterHiring(text), PositionAfterBar(text)>>))),
     Location |-> Labelled(Stripped(PrefixedLabelCapture(text, LocationLabel))),
     Remote |-> Labelled(Stripped(RemoteField(text))),
     Salary |-> Labelled(Stripped(SalaryField(text))),
     Technologies |-> Cascaded(Labelled(Stripped(PrefixedLabelCapture(text, StackLabels))),
                               FirstSection(text)),
     Description |-> Description(text),
     Apply |-> Labelled(Stripped(PrefixedLabelCapture(text, ApplyLabels))),
     LinkToHN |-> HN_BASE_URL \o JOBS_THREAD_ID \o Str_hash \o comment.id,
     RawText |-> text]

\* inline_flags: the interpreter accepts a flag such as (?i) in the middle
\* of a pattern (with a warning), as the ones before Python 3.11 do
extract_job_fields(comment, today, inline_flags) ==
    IF inline_flags THEN JobFields(comment, clean_html(comment.text), today) ELSE ReError

----------------------------------------------------------------------------
(* the comments the functions of job_matcher are applied to *)

\* the most paragraphs of a comment
MaxParagraphs == 2

\* the paragraphs the comments are made of
Paragraphs ==
    <<        \* Email: a@b.io
       <<"E", "m", "a", "i", "l", ":", " ", "a", "@", "b", ".", "i", "o">>,
       \* skills: . tech stack: Go
       <<"s", "k", "i", "l", "l", "s", ":", " ", ".", " ", "t", "e", "c", "h", " ", "s", "t", "a", "c", "k", ":", " ", "G", "o">>,
       \* We are remote friendly
       <<"W", "e", " ", "a", "r", "e", " ", "r", "e", "m", "o", "t", "e", " ", "f", "r", "i", "e", "n", "d", "l", "y">>,
       \* Remote: No
       <<"R", "e", "m", "o", "t", "e", ":", " ", "N", "o">>,
       \* great pay: good.
       <<"g", "r", "e", "a", "t", " ", "p", "a", "y", ":", " ", "g", "o", "o", "d", ".">>,
       \* Salary: 100k
       <<"S", "a", "l", "a", "r", "y", ":", " ", "1", "0", "0", "k">>,
       \* Acme | Senior Engineer
       <<"A", "c", "m", "e", " ", "|", " ", "S", "e", "n", "i", "o", "r", " ", "E", "n", "g", "i", "n", "e", "e", "r">>,
       \* $100,000
       <<"$", "1", "0", "0", ",", "0", "0", "0">> >>

\* the 'text' of the comments of n paragraphs, none twice, with the <p>
\* the API puts between two paragraphs
RECURSIVE CommentsOf(_)
CommentsOf(n) ==
    IF n = 1 THEN {Paragraphs[i] : i \in DOMAIN Paragraphs}
    ELSE {p[1] \o Lit_p_tag \o Paragraphs[p[2]] :
             p \in {q \in CommentsOf(n - 1) \X DOMAIN Paragraphs : ~Contains(q[1], Paragraphs[q[2]])}}

\* the empty text and the texts of up to MaxParagraphs paragraphs
CommentTexts == {EmptyStr} \cup UNION {CommentsOf(n) : n \in 1..MaxParagraphs}

\* datetime.now().strftime("%B %d, %Y") on the day of the run
Today == <<"M", "a", "r", "c", "h", " ", "1", "0", ",", " ", "2", "0", "2", "5">>

\* the comment of a text
CommentOf(comment_id, t) == [id |-> comment_id, text |-> t]

Str_7 == <<"7">>

FieldsInit ==
    /\ re_inline_flags \in BOOLEAN
    /\ comment_type \in {Str_job, Str_candidate}
    /\ comment_text = None
    /\ extracted = None
    /\ thread = None
    /\ comments_list = None
    /\ skipped_count = None
    /\ candidate = None
    /\ job = None
    /\ match_result = None
    /\ candidates = None
    /\ jobs = None
    /\ min_score = None
    /\ matches = None
    /\ job_posts = None
    /\ results = None
    /\ candidate_comments = None
    /\ job_comments = None
    /\ result_file = None
    /\ points = None
    /\ pc = "data"
    /\ scored_candidates = None
    /\ technologies_found = None
    /\ found_tech = None
    /\ cleaned_text = None
    /\ hiring_posts = None
    /\ candidate_posts = None
    /\ all_posts = None
    /\ total_candidates = None
    /\ total_jobs = None
    /\ processed_batches = None
    /\ environ = None
    /\ script_runs = None
    /\ printed = None

ExtractCandidateFields ==
    /\ pc = "data"
    /\ \E t \in CommentTexts :
           /\ comment_text' = t
           /\ extracted' = extract_candidate_fields(CommentOf(Str_7, t), Today)
    /\ pc' = "candidate_fields"
    /\ UNCHANGED <<comment_type, thread, comments_list, skipped_count, dataRest>>

\* extract_job_fields returns the fields or leaves with the re.error
ExtractJobFields ==
    /\ pc = "data"
    /\ \E t \in CommentTexts :
           /\ comment_text' = t
           /\ extracted' = extract_job_fields(CommentOf(Str_7, t), Today, re_inline_flags)
    /\ pc' = IF re_inline_flags THEN "job_fields" ELSE "raised"
    /\ UNCHANGED <<comment_type, thread, comments_list, skipped_count, dataRest>>

FieldsNext ==
    \/ ExtractCandidateFields
    \/ ExtractJobFields
    \/ ExtractSalary

FieldsSpec == FieldsInit /\ [][FieldsNext]_vars

----------------------------------------------------------------------------
(* job_matcher.fetch_hn_comments and main, upsert_to_qdrant.main *)

BATCH_SIZE == 20

\* min_match_score of main
MinMatchScore == 40

Str_job_matching_results == "job_matching_results.json"

\* response.json() of the request for a comment has a 'text'
HasText(comment_data) == "text" \in DOMAIN comment_data

\* the loop over thread_data['kids']: the comments that have a text, each
\* with its text unescaped; kids[i] is the comment the API returns for the
\* i-th id
FetchedComments(kids) ==
    [i \in DOMAIN SelectSeq(kids, HasText) |->
        [SelectSeq(kids, HasText)[i] EXCEPT !.text = unescape(@)]]

fetch_hn_comments(response) ==
    IF response.status_code # 200 THEN <<>>
    ELSE IF "kids" \notin DOMAIN response.json THEN <<>>
    ELSE FetchedComments(response.json.kids)

\* candidate["Summary"] = ..., job["Summary"] = ...
WithSummary(fields, summary) == fields @@ [Summary |-> summary]

\* candidate["id"] = comment.get("id", "")
WithId(fields, comment) ==
    fields @@ [id |-> IF "id" \in DOMAIN comment THEN comment.id ELSE EmptyStr]

\* IsValidCandidate keeping every candidate
IsValidCandidate_Always(fields) == TRUE

\* the candidate passes the test that skips entries missing critical fields
IsValidCandidate(fields) ==
    ~(~Truthy(fields.Email) /\ ~Truthy(fields.Resume) /\ ~Truthy(fields.Location))

\* the job passes the test that skips entries missing critical fields
IsValidJob(fields) == ~(~Truthy(fields.Company) /\ ~Truthy(fields.Position))

\* the list a loop appends the valid records to, each with its Summary
SummarizedCandidates(records) ==
    [i \in DOMAIN SelectSeq(records, IsValidCandidate) |->
        WithSummary(SelectSeq(records, IsValidCandidate)[i],
                    generate_candidate_summary(SelectSeq(records, IsValidCandidate)[i]))]

SummarizedJobs(records) ==
    [i \in DOMAIN SelectSeq(records, IsValidJob) |->
        WithSummary(SelectSeq(records, IsValidJob)[i],
                    generate_job_summary(SelectSeq(records, IsValidJob)[i]))]

\* the loop over candidate_comments of job_matcher.main
ProcessedCandidates(comments, today) ==
    SummarizedCandidates([i \in DOMAIN comments |-> extract_candidate_fields(comments[i], today)])

\* the loop over candidate_comments of upsert_to_qdrant.main
DirectCandidates(comments, today) ==
    SummarizedCandidates([i \in DOMAIN comments |->
        WithId(extract_candidate_fields(comments[i], today), comments[i])])

\* extract_job_fields raises in a loop over these comments
JobLoopRaises(comments, inline_flags) == comments # <<>> /\ ~inline_flags

\* the loop over job_comments of job_matcher.main, where it does not raise
ProcessedJobs(comments, today) ==
    SummarizedJobs([i \in DOMAIN comments |-> extract_job_fields(comments[i], today, TRUE)])

\* the loop over job_comments of upsert_to_qdrant.main, where it does not
\* raise
DirectJobs(comments, today) ==
    SummarizedJobs([i \in DOMAIN comments |->
        WithId(extract_job_fields(comments[i], today, TRUE), comments[i])])

\* the batches  items[i:i+BATCH_SIZE]  for i in range(0, len(items), BATCH_SIZE)
Batches(items, item_type) ==
    [k \in 1..((Len(items) + BATCH_SIZE - 1) \div BATCH_SIZE) |->
        [item_type |-> item_type,
         items |-> SubSeq(items, (k - 1) * BATCH_SIZE + 1, Min(k * BATCH_SIZE, Len(items)))]]

\* the payloads of the points of a batch
BatchPoints(batch) ==
    [i \in DOMAIN batch.items |-> [type |-> batch.item_type, data |-> batch.items[i]]]

\* what process_batch does for a batch: the points are upserted, the upsert
\* fails and process_batch returns 0, or generate_embedding raises
BatchOutcomes == {"upserted", "failed", "raised"}

\* the payloads in the collection after the batches, in the order of the
\* calls, up to the first batch that raises
RECURSIVE UpsertedPoints(_, _, _)
UpsertedPoints(batches, outcomes, k) ==
    IF k > Len(batches) \/ outcomes[k] = "raised" THEN <<>>
    ELSE (IF outcomes[k] = "upserted" THEN BatchPoints(batches[k]) ELSE <<>>)
             \o UpsertedPoints(batches, outcomes, k + 1)

\* upsert_to_qdrant_in_batches: the candidates, then the jobs
upsert_to_qdrant_in_batches(candidate_list, job_list, outcomes) ==
    UpsertedPoints(Batches(candidate_list, Str_candidate) \o Batches(job_list, Str_job),
                   outcomes, 1)

----------------------------------------------------------------------------
(* the threads the two main functions read *)

\* the most comments of a thread
MaxComments == 2

\* the comments of the candidates thread: two with a text, one deleted
CandidateComments ==
    { \* Location: Berlin<p>Remote: Yes<p>Technologies: Python, Go
      [id |-> <<"1">>, text |-> <<"L", "o", "c", "a", "t", "i", "o", "n", ":", " ", "B", "e", "r", "l", "i", "n", "<", "p", ">", "R", "e", "m", "o", "t", "e", ":", " ", "Y", "e", "s", "<", "p", ">", "T", "e", "c", "h", "n", "o", "l", "o", "g", "i", "e", "s", ":", " ", "P", "y", "t", "h", "o", "n", ",", " ", "G", "o">>],
      \* We are remote friendly
      [id |-> <<"2">>, text |-> <<"W", "e", " ", "a", "r", "e", " ", "r", "e", "m", "o", "t", "e", " ", "f", "r", "i", "e", "n", "d", "l", "y">>],
      [id |-> <<"3">>, deleted |-> TRUE] }

\* the comments of the jobs thread: two with a text, one deleted
JobComments ==
    { \* Acme | Remote<p>Location: Berlin<p>Stack: Python, Go
      [id |-> <<"4">>, text |-> <<"A", "c", "m", "e", " ", "|", " ", "R", "e", "m", "o", "t", "e", "<", "p", ">", "L", "o", "c", "a", "t", "i", "o", "n", ":", " ", "B", "e", "r", "l", "i", "n", "<", "p", ">", "S", "t", "a", "c", "k", ":", " ", "P", "y", "t", "h", "o", "n", ",", " ", "G", "o">>],
      \* Remote: No
      [id |-> <<"5">>, text |-> <<"R", "e", "m", "o", "t", "e", ":", " ", "N", "o">>],
      [id |-> <<"6">>, deleted |-> TRUE] }

\* the responses to the request for a thread
HnThreads(comment_pool) ==
    {[status_code |-> 404], [status_code |-> 200, json |-> [id |-> <<"0">>]]}
        \cup {[status_code |-> 200, json |-> [id |-> <<"0">>, kids |-> kids]] :
                  kids \in ListsOf(comment_pool, MaxComments)}

MainInit ==
    /\ re_inline_flags \in BOOLEAN
    /\ candidate_comments = None
    /\ job_comments = None
    /\ result_file = None
    /\ points = None
    /\ candidates = None
    /\ jobs = None
    /\ min_score = None
    /\ matches = None
    /\ candidate = None
    /\ job = None
    /\ match_result = None
    /\ job_posts = None
    /\ results = None
    /\ comment_text = None
    /\ comment_type = None
    /\ extracted = None
    /\ thread = None
    /\ comments_list = None
    /\ skipped_count = None
    /\ pc = "main"
    /\ scored_candidates = None
    /\ technologies_found = None
    /\ found_tech = None
    /\ cleaned_text = None
    /\ hiring_posts = None
    /\ candidate_posts = None
    /\ all_posts = None
    /\ total_candidates = None
    /\ total_jobs = None
    /\ processed_batches = None
    /\ environ = None
    /\ script_runs = None
    /\ printed = None

mainRest == <<candidate, job, match_result, blendVars, dataVars, re_inline_flags, moreVars>>

\* job_matcher.main: the two fetches and the return when a list is empty
FetchComments ==
    /\ pc = "main"
    /\ \E candidates_response \in HnThreads(CandidateComments),
          jobs_response \in HnThreads(JobComments) :
           /\ candidate_comments' = fetch_hn_comments(candidates_response)
           /\ job_comments' = fetch_hn_comments(jobs_response)
    /\ pc' = IF candidate_comments' = <<>> \/ job_comments' = <<>> THEN "returned" ELSE "candidates"
    /\ UNCHANGED <<candidates, jobs, min_score, matches, result_file, points, mainRest>>

\* job_matcher.main: the loop over candidate_comments
ProcessCandidates ==
    /\ pc = "candidates"
    /\ candidates' = ProcessedCandidates(candidate_comments, Today)
    /\ pc' = "jobs"
    /\ UNCHANGED <<candidate_comments, job_comments, jobs, min_score, matches, result_file,
                   points, mainRest>>

\* job_matcher.main: the loop over job_comments
ProcessJobs ==
    /\ pc = "jobs"
    /\ IF JobLoopRaises(job_comments, re_inline_flags)
       THEN pc' = "raised" /\ UNCHANGED jobs
       ELSE pc' = "match" /\ jobs' = ProcessedJobs(job_comments, Today)
    /\ UNCHANGED <<candidate_comments, job_comments, candidates, min_score, matches, result_file,
                   points, mainRest>>

\* job_matcher.main: find_matches and the results file
FindAndSave ==
    /\ pc = "match"
    /\ min_score' = MinMatchScore
    /\ matches' = find_matches(candidates, jobs, MinMatchScore)
    /\ result_file' = [name |-> Str_job_matching_results,
                       data |-> [candidates |-> candidates, jobs |-> jobs, matches |-> matches']]
    /\ pc' = "saved"
    /\ UNCHANGED <<candidate_comments, job_comments, candidates, jobs, points, mainRest>>

\* upsert_to_qdrant.main where job_matching_results.json exists: the lists
\* are the ones of the file
LoadResults ==
    /\ pc = "saved"
    /\ candidates' = result_file.data.candidates
    /\ jobs' = result_file.data.jobs
    /\ pc' = "upsert"
    /\ UNCHANGED <<candidate_comments, job_comments, min_score, matches, result_file, points,
                   mainRest>>

\* upsert_to_qdrant.main where the file does not exist: the two fetches
FetchDirect ==
    /\ pc = "main"
    /\ \E candidates_response \in HnThreads(CandidateComments),
          jobs_response \in HnThreads(JobComments) :
           /\ candidate_comments' = fetch_hn_comments(candidates_response)
           /\ job_comments' = fetch_hn_comments(jobs_response)
    /\ pc' = "direct_candidates"
    /\ UNCHANGED <<candidates, jobs, min_score, matches, result_file, points, mainRest>>

\* upsert_to_qdrant.main: the loop over candidate_comments
ProcessCandidatesDirect ==
    /\ pc = "direct_candidates"
    /\ candidates' = DirectCandidates(candidate_comments, Today)
    /\ pc' = "direct_jobs"
    /\ UNCHANGED <<candidate_comments, job_comments, jobs, min_score, matches, result_file,
                   points, mainRest>>

\* upsert_to_qdrant.main: the loop over job_comments
ProcessJobsDirect ==
    /\ pc = "direct_jobs"
    /\ IF JobLoopRaises(job_comments, re_inline_flags)
       THEN pc' = "raised" /\ UNCHANGED jobs
       ELSE pc' = "upsert" /\ jobs' = DirectJobs(job_comments, Today)
    /\ UNCHANGED <<candidate_comments, job_comments, candidates, min_score, matches, result_file,
                   points, mainRest>>

\* upsert_to_qdrant.main: the batches, each with one of the outcomes
UpsertInBatches ==
    /\ pc = "upsert"
    /\ \E outcomes \in [1..(Len(Batches(candidates, Str_candidate)) + Len(Batches(jobs, Str_job)))
                           -> BatchOutcomes] :
           /\ points' = upsert_to_qdrant_in_batches(candidates, jobs, outcomes)
           /\ pc' = IF \E k \in DOMAIN outcomes : outcomes[k] = "raised"
                    THEN "upsert_raised" ELSE "upserted"
    /\ UNCHANGED <<candidate_comments, job_comments, candidates, jobs, min_score, matches,
                   result_file, mainRest>>

MainNext ==
    \/ FetchComments
    \/ ProcessCandidates
    \/ ProcessJobs
    \/ FindAndSave
    \/ LoadResults
    \/ FetchDirect
    \/ ProcessCandidatesDirect
    \/ ProcessJobsDirect
    \/ UpsertInBatches

MainSpec == MainInit /\ [][MainNext]_vars

----------------------------------------------------------------------------
(* properties of calculate_match_score, checked under ScoreSpec *)

Scored == pc = "scored"

\* the pair with every field but the remote ones, the location ones, the
\* technology ones blanked
RemoteOnlyCandidate(c) == [c EXCEPT !.Location = None, !.WillingToRelocate = None, !.Technologies = None]

RemoteOnlyJob(j) == [j EXCEPT !.Location = None, !.Technologies = None]

LocationOnlyCandidate(c) == [c EXCEPT !.Remote = None, !.Technologies = None]

LocationOnlyJob(j) == [j EXCEPT !.Remote = None, !.Technologies = None]

TechOnlyCandidate(c) == [c EXCEPT !.Remote = None, !.Location = None, !.WillingToRelocate = None]

TechOnlyJob(j) == [j EXCEPT !.Remote = None, !.Location = None]

\* field is present and contains marker, letter case ignored
HasMarker(field, marker) ==
    /\ field # None
    /\ \E i \in 1..Len(field) :
          \A k \in 1..Len(marker) :
              i + k - 1 <= Len(field) /\ LowerChar(field[i + k - 1]) = marker[k]

\* each of the two strings occurs in the other, or one of them does
MutualSubstrings(a, b) == Contains(a, b) \/ Contains(b, a)

IsExamplePair ==
    /\ candidate.Remote = Str_Yes
    /\ candidate.Location = Str_Berlin
    /\ candidate.Technologies = Str_PythonReactDocker
    /\ job.Remote = Str_RemoteOK
    /\ job.Location = Str_BerlinGermany
    /\ job.Technologies = Str_pythonDockerKubernetes

\* C1: for every candidate record and every job record the call returns
\* (it does not raise) and the returned score is an integer s, 0 <= s <= 100
C1_ScoreInRange ==
    Scored => match_result # ZeroDivisionError /\ match_result.score \in 0..100

C1_Witness == Scored /\ match_result.score = 100

\* C2: the score is min(100, remote + location + technology), each of the
\* three being what the pair scores when only that factor's fields are
\* kept, so none depends on the other two; the worked example of the
\* specification scores 25 + 20 + 36 = 81
C2_IndependentSum ==
    Scored =>
        LET r == calculate_match_score(RemoteOnlyCandidate(candidate), RemoteOnlyJob(job)).score
            l == calculate_match_score(LocationOnlyCandidate(candidate), LocationOnlyJob(job)).score
            t == calculate_match_score(TechOnlyCandidate(candidate), TechOnlyJob(job)).score
        IN /\ match_result.score = Min(100, r + l + t)
           /\ IsExamplePair => r = 25 /\ l = 20 /\ t = 36 /\ match_result.score = 81

C2_Witness == Scored /\ IsExamplePair /\ match_result.score = 81

\* C3: the remote component is 25 exactly when the candidate's Remote is
\* present and contains "yes" (any letter case) and the job's Remote is
\* present and contains "yes" or "remote"; in every other case it is 0,
\* and the breakdown has its "remote" entry exactly when it is 25
C3_RemoteComponent ==
    Scored =>
        LET affirmative == /\ HasMarker(candidate.Remote, Str_yes)
                           /\ (HasMarker(job.Remote, Str_yes) \/ HasMarker(job.Remote, Str_remote))
        IN /\ RemoteStep(candidate, job).points = IF affirmative THEN 25 ELSE 0
           /\ ("remote" \in DOMAIN match_result.details) <=> affirmative

C3_Witness ==
    /\ Scored
    /\ candidate.Remote = Str_YES
    /\ job.Remote = Str_RemoteOK
    /\ "remote" \in DOMAIN match_result.details

\* C4 as stated: whether or not the Location fields are present, the
\* location component is 20 if the normalized locations are substrings of
\* one another, otherwise 10 if Willing to Relocate is affirmative,
\* otherwise 0
C4_LocationAnyPresence ==
    Scored =>
        LocationStep(candidate, job).points =
            IF MutualSubstrings(normalize_text(job.Location), normalize_text(candidate.Location)) THEN 20
            ELSE IF HasMarker(candidate.WillingToRelocate, Str_yes) THEN 10
            ELSE 0

\* C4 amended: when both Location fields are present and non-empty the
\* location component is 20 if the normalized locations are substrings of
\* one another, otherwise 10 if Willing to Relocate is affirmative,
\* otherwise 0; when either Location field is absent or empty it is 0
C4_LocationBothPresent ==
    Scored =>
        LocationStep(candidate, job).points =
            IF ~(Truthy(job.Location) /\ Truthy(candidate.Location)) THEN 0
            ELSE IF MutualSubstrings(normalize_text(job.Location), normalize_text(candidate.Location)) THEN 20
            ELSE IF HasMarker(candidate.WillingToRelocate, Str_yes) THEN 10
            ELSE 0

C4_Witness ==
    /\ Scored
    /\ ~Truthy(job.Location)
    /\ HasMarker(candidate.WillingToRelocate, Str_yes)
    /\ "location" \notin DOMAIN match_result.details
    /\ match_result.score = 0

\* C5: whenever the job's technology set is non-empty the technology
\* component is floor(55 * |candidate technologies /\ job technologies| /
\* |job technologies|)
C5_TechnologyFloor ==
    Scored =>
        LET candidate_tech == extract_technologies(candidate.Technologies)
            job_tech == extract_technologies(job.Technologies)
        IN job_tech # {} =>
              TechStep(candidate, job).points =
                  (55 * Cardinality(candidate_tech \cap job_tech)) \div Cardinality(job_tech)

\* C6: when the job's technology set is empty the call does not raise and
\* the technology component is 0 whatever the candidate's technologies:
\* the score is the one the pair gets with the technologies blanked, and
\* the breakdown has no technology entry
C6_EmptyJobTechnologies ==
    Scored /\ extract_technologies(job.Technologies) = {} =>
        /\ match_result # ZeroDivisionError
        /\ TechStep(candidate, job).points = 0
        /\ "technologies" \notin DOMAIN match_result.details
        /\ match_result.score =
               calculate_match_score([candidate EXCEPT !.Technologies = None],
                                     [job EXCEPT !.Technologies = None]).score

C6_Witness ==
    /\ Scored
    /\ job.Technologies = Str_CppCsharp
    /\ extract_technologies(candidate.Technologies) # {}
    /\ match_result.score = 45

\* the points the breakdown accounts for
PointsListed(details) ==
    (IF "remote" \in DOMAIN details THEN 25 ELSE 0)
    + (IF "location" \in DOMAIN details
       THEN IF details["location"] = "Location matches (+20)" THEN 20 ELSE 10
       ELSE 0)
    + (IF "technologies" \in DOMAIN details THEN details["technologies"][6] ELSE 0)

\* C7 as stated: the breakdown has a justification for every factor that
\* contributed points and for no factor that contributed none, the
\* matching-technology list of a reported technology factor is the
\* intersection of the two technology sets, and the score is the capped
\* sum of the points of the factors listed
C7_BreakdownOnlyContributors ==
    Scored =>
        LET details == match_result.details
        IN /\ ("remote" \in DOMAIN details) <=> RemoteStep(candidate, job).points > 0
           /\ ("location" \in DOMAIN details) <=> LocationStep(candidate, job).points > 0
           /\ ("technologies" \in DOMAIN details) <=> TechStep(candidate, job).points > 0
           /\ "technologies" \in DOMAIN details =>
                 /\ "matching_tech" \in DOMAIN details
                 /\ details["matching_tech"] =
                        extract_technologies(candidate.Technologies)
                            \cap extract_technologies(job.Technologies)
           /\ match_result.score = Min(100, PointsListed(details))

\* C7 amended: the breakdown has a justification for every factor that
\* contributed points; the remote and the location factor are listed only
\* when they contributed, the technology factor is listed whenever both
\* technology sets are non-empty, also when it contributed 0 points; the
\* matching-technology list of a reported technology factor is the
\* intersection of the two technology sets, and the score is the capped
\* sum of the points of the factors listed
C7_BreakdownAmended ==
    Scored =>
        LET details == match_result.details
            candidate_tech == extract_technologies(candidate.Technologies)
            job_tech == extract_technologies(job.Technologies)
        IN /\ ("remote" \in DOMAIN details) <=> RemoteStep(candidate, job).points > 0
           /\ ("location" \in DOMAIN details) <=> LocationStep(candidate, job).points > 0
           /\ TechStep(candidate, job).points > 0 => "technologies" \in DOMAIN details
           /\ ("technologies" \in DOMAIN details) <=> (candidate_tech # {} /\ job_tech # {})
           /\ ("matching_tech" \in DOMAIN details) <=> ("technologies" \in DOMAIN details)
           /\ "technologies" \in DOMAIN details =>
                 details["matching_tech"] = candidate_tech \cap job_tech
           /\ match_result.score = Min(100, PointsListed(details))

C7_Witness ==
    /\ Scored
    /\ "technologies" \in DOMAIN match_result.details
    /\ match_result.details["matching_tech"] = {}
    /\ match_result.details["technologies"][6] = 0
    /\ "remote" \in DOMAIN match_result.details

----------------------------------------------------------------------------
(* properties of find_matches, checked under Spec *)

Found == pc = "found"

\* where a record stands in an input list (the records of a list are
\* distinct comments)
PositionIn(list, record) == CHOOSE i \in DOMAIN list : list[i] = record

\* the greatest score among an entry's matches
BestOf(entry) ==
    CHOOSE v \in {entry.matches[i].match_score : i \in DOMAIN entry.matches} :
        \A i \in DOMAIN entry.matches : v >= entry.matches[i].match_score

\* C8: every match returned has match_score >= min_score, and within each
\* returned candidate's matches the scores are non-increasing
C8_ThresholdAndOrder ==
    Found =>
        \A e \in DOMAIN matches :
            /\ \A i \in DOMAIN matches[e].matches : matches[e].matches[i].match_score >= min_score
            /\ \A i \in DOMAIN matches[e].matches : \A k \in DOMAIN matches[e].matches :
                   i < k => matches[e].matches[i].match_score >= matches[e].matches[k].match_score

C8_Witness ==
    /\ Found
    /\ min_score = 81
    /\ Len(jobs) = 2
    /\ \E e \in DOMAIN matches :
          /\ Len(matches[e].matches) = 1
          /\ matches[e].matches[1].match_score = 81
          /\ matches[e].matches[1].job = jobs[2]

\* C9: the returned list is ordered by each candidate's best match score,
\* non-increasing from the first entry to the last
C9_OrderedByBest ==
    Found =>
        \A i \in DOMAIN matches : \A k \in DOMAIN matches :
            i < k => BestOf(matches[i]) >= BestOf(matches[k])

C9_Witness ==
    /\ Found
    /\ Len(matches) = 2
    /\ BestOf(matches[1]) > BestOf(matches[2])
    /\ PositionIn(candidates, matches[1].candidate) > PositionIn(candidates, matches[2].candidate)

\* C10: ties keep the input order: two jobs with equal score for one
\* candidate appear in its matches in the order they have in jobs, two
\* candidates with equal best score appear in the order they have in
\* candidates
C10_TiesInInputOrder ==
    Found =>
        /\ \A e \in DOMAIN matches :
               \A i \in DOMAIN matches[e].matches : \A k \in DOMAIN matches[e].matches :
                   i < k /\ matches[e].matches[i].match_score = matches[e].matches[k].match_score
                       => PositionIn(jobs, matches[e].matches[i].job)
                              < PositionIn(jobs, matches[e].matches[k].job)
        /\ \A i \in DOMAIN matches : \A k \in DOMAIN matches :
               i < k /\ BestOf(matches[i]) = BestOf(matches[k])
                   => PositionIn(candidates, matches[i].candidate)
                          < PositionIn(candidates, matches[k].candidate)

C10_Witness ==
    /\ Found
    /\ Len(matches) = 2
    /\ BestOf(matches[1]) = BestOf(matches[2])
    /\ Len(matches[1].matches) = 2
    /\ matches[1].matches[1].match_score = matches[1].matches[2].match_score
    /\ matches[1].matches[1].job.LinkToHN > matches[1].matches[2].job.LinkToHN
    /\ matches[1].candidate.LinkToHN > matches[2].candidate.LinkToHN

----------------------------------------------------------------------------
(* properties of the calls outside the contract *)

Swapped == pc = "swapped"

\* C18: calculate_match_score called with a job record as candidate and a
\* candidate record as job never returns a score: every such call fails
C18_SwappedCallFails ==
    Swapped => match_result \in {KeyError, ZeroDivisionError}

----------------------------------------------------------------------------
(* purity of scoring, checked under Spec *)

\* what find_matches reports for the pair alone, whatever its score
AloneResult(c, j) == find_matches(<<c>>, <<j>>, 0)[1].matches[1]

----------------------------------------------------------------------------
(* properties of the blended score, checked under BlendSpec *)

Blended == pc = "blended"

\* the similarity of a reported candidate, in twentieths
TwentiethsOf(payload) ==
    SimilarityTwentieths[(CHOOSE hit \in HitPool : hit.payload = payload).id]

\* the job technologies a reported candidate lists
Overlap(r) == Cardinality(Range(r.job.technologies) \cap Range(r.candidate.technologies))

\* 1000 * (0.6 * 100 * overlap / n + 0.4 * 100 * twentieths / 20) in exact
\* arithmetic, rounded down; the technology term is 0 for n = 0
ExactPerMille(overlap, n, twentieths) ==
    IF n = 0 THEN (40000 * twentieths) \div 20
    ELSE (60000 * overlap * 20 + 40000 * twentieths * n) \div (20 * n)

\* the float 100.0
Float_100 == FloatMul(FloatDiv(1, 1), 100)

\* C20: the blended total of every reported pair is 0.6 * technology
\* percentage + 0.4 * similarity * 100 (to the thousandth, the technology
\* percentage being 0 for a job without technologies), whatever the remote
\* and location fields of the two payloads, and lies in [0, 100]
C20_BlendedTotal ==
    Blended =>
        \A i \in DOMAIN results :
            LET r == results[i]
                exact == ExactPerMille(Overlap(r), Len(r.job.technologies), TwentiethsOf(r.candidate))
                total == FloatToInt(FloatMul(r.overall_match_score, 1000))
            IN /\ total \in (exact - 1)..(exact + 1)
               /\ ~FloatGreater(r.overall_match_score, Float_100)

\* a full technology match at similarity 1: total 100
C20_Witness ==
    /\ Blended
    /\ \E i \in DOMAIN results : results[i].overall_match_score = Float_100

----------------------------------------------------------------------------
(* properties of the functions of get_data, checked under DataSpec *)

\* the captures of the five explicit patterns in a text, in their order
ExplicitCaptures(s) ==
    <<ExperiencePattern1(s), ExperiencePattern2(s), ExperiencePattern3(s),
      ExperiencePattern4(s), ExperiencePattern5(s)>>

\* the value the precedence rule gives a text with these captures
ByPrecedence(s, captures) ==
    IF \E k \in DOMAIN captures : captures[k] # NoMatch
    THEN PyInt(captures[Least({k \in DOMAIN captures : captures[k] # NoMatch})])
    ELSE IF SeniorKeyword(s) THEN Str_SeniorBand
    ELSE IF MidKeyword(s) THEN Str_MidBand
    ELSE IF JuniorKeyword(s) THEN Str_JuniorBand
    ELSE Str_NotSpecified

\* C16: extract_years_of_experience returns the integer of the first explicit
\* pattern in order that matches the text, whatever seniority keywords the
\* text holds; a band only when no explicit pattern matches, senior before
\* mid before junior; and "Not specified" when nothing matches
C16_ExplicitYearsFirst ==
    pc = "years" =>
        extracted = ByPrecedence(lower(comment_text), ExplicitCaptures(lower(comment_text)))

\* an integer, a seniority band label or "Not specified"
IsYearsValue(v) ==
    \/ IsPyInt(v)
    \/ v \in {Str_SeniorBand, Str_MidBand, Str_JuniorBand, Str_NotSpecified}

\* C17: the years-of-experience value of a candidate text (the result of
\* extract_years_of_experience, the experience of validate_post_data and the
\* years_of_experience of extract_candidate_specific_data) is an integer, one
\* of the three band labels or "Not specified"
C17_YearsValueDomain ==
    /\ pc = "years" => IsYearsValue(extracted)
    /\ pc = "specific" => IsYearsValue(extracted.years_of_experience)
    /\ (pc = "validated" /\ comment_type = Str_candidate /\ extracted # PostIndexError)
           => IsYearsValue(extracted.experience)

\* a post without email, resume link and detectable location
LacksContact(post) ==
    post.email = None /\ post.resume = None /\ post.location = Str_Unknown

\* the comments of the thread that have a text
WithText(kids) == {k \in DOMAIN kids : get_item(kids[k]) # NoItem /\ "text" \in DOMAIN get_item(kids[k])}

\* C12: a candidate post without email, resume link and detectable location
\* is dropped by get_comments: it is not in the returned list, and the
\* comments with a text that are not in the list are counted as skipped
C12_ContactlessDropped ==
    (pc = "fetched" /\ comment_type = Str_candidate /\ "kids" \in DOMAIN get_item(thread)) =>
        /\ \A k \in DOMAIN comments_list : ~LacksContact(comments_list[k])
        /\ skipped_count = Cardinality(WithText(get_item(thread).kids)) - Len(comments_list)

----------------------------------------------------------------------------
(* properties of the extraction functions, checked under FieldsSpec *)

\* C13: extract_candidate_fields, extract_job_fields and extract_salary of
\* get_data return a value for every comment text, the empty one and the one
\* of a bare currency amount included: none of them leaves with an exception
C13_ExtractionNeverRaises ==
    /\ pc # "raised"
    /\ pc = "salary" => extracted # IndexError

\* the trimmed capture of the first rule in order that has a non-empty one,
\* None without such a rule
FirstNonEmpty(captures) ==
    LET won == {k \in DOMAIN captures : captures[k] # NoMatch /\ captures[k] # EmptyStr}
    IN IF won = {} THEN None ELSE captures[Least(won)]

\* the trimmed captures of the rules of Email, Resume and Technologies, in
\* the order the rules are listed
EmailRules(text) == <<EmailMain(text), EmailContact(text), EmailBare(text)>>

ResumeRules(text) == <<ResumeMain(text), ResumeLabelled(text), ResumeNamedLink(text)>>

TechnologiesRules(text) ==
    <<Stripped(PrefixedLabelCapture(text, TechnologiesLabel)),
      TechnologiesAfter(text, SkillsWords),
      TechnologiesAfter(text, TechStackWords),
      TechnologiesAfter(text, ProficientWords)>>

\* C14: Email, Resume and Technologies of extract_candidate_fields are each
\* the trimmed capture of the first rule in order whose trimmed capture is
\* not empty, None when no rule has one; and no field of the record is the
\* empty string
C14_FirstNonEmptyCaptureWins ==
    pc = "candidate_fields" =>
        /\ extracted.Email = FirstNonEmpty(EmailRules(clean_html(comment_text)))
        /\ extracted.Resume = FirstNonEmpty(ResumeRules(clean_html(comment_text)))
        /\ extracted.Technologies = FirstNonEmpty(TechnologiesRules(clean_html(comment_text)))
        /\ \A field \in DOMAIN extracted : extracted[field] # EmptyStr

\* the field a label line gives when the text has one, whatever else the
\* text holds
LabelFirst(field, label_capture) ==
    label_capture # NoMatch => field = strip(label_capture)

\* C15: when the text has a line  Remote: value  (Salary: value or
\* Compensation: value), Remote (Salary) of extract_job_fields is the value
\* of that line, wherever the words of the fallback rule are in the text
C15_LabelBeatsFallback ==
    pc = "job_fields" =>
        /\ LabelFirst(extracted.Remote,
                      PrefixedLabelCapture(clean_html(comment_text), RemoteLabel))
        /\ LabelFirst(extracted.Salary,
                      PrefixedLabelCapture(clean_html(comment_text), SalaryLabels))

----------------------------------------------------------------------------
(* properties of the two main functions, checked under MainSpec *)

\* a candidate record with none of Email, Resume and Location
NoContact(record) ==
    ~Truthy(record.Email) /\ ~Truthy(record.Resume) /\ ~Truthy(record.Location)

\* a job record with neither Company nor Position
NoEmployer(record) == ~Truthy(record.Company) /\ ~Truthy(record.Position)

\* the links of the fetched comments whose extracted record is invalid
DiscardedCandidates ==
    {extract_candidate_fields(candidate_comments[i], Today).LinkToHN :
        i \in {k \in DOMAIN candidate_comments :
                  NoContact(extract_candidate_fields(candidate_comments[k], Today))}}

DiscardedJobs ==
    {extract_job_fields(job_comments[i], Today, TRUE).LinkToHN :
        i \in {k \in DOMAIN job_comments :
                  NoEmployer(extract_job_fields(job_comments[k], Today, TRUE))}}

\* where the loop over candidate_comments, the loop over job_comments,
\* find_matches and the upsert step have run
CandidatesListed ==
    pc \in {"jobs", "match", "saved", "direct_jobs", "upsert", "upserted", "raised", "upsert_raised"}

JobsListed == pc \in {"match", "saved", "upsert", "upserted", "upsert_raised"}

MatchesFound == pc = "saved"

Upserted == pc \in {"upserted", "upsert_raised"}

\* a record that none of the discarded comments gave
KeptCandidate(record) == ~NoContact(record) /\ record.LinkToHN \notin DiscardedCandidates

KeptJob(record) == ~NoEmployer(record) /\ record.LinkToHN \notin DiscardedJobs

\* C11: in job_matcher.main and in the direct branch of upsert_to_qdrant.main
\* a candidate record with none of Email, Resume, Location and a job record
\* with neither Company nor Position are discarded: the records with a
\* Summary, the records of the two lists and of the results file, the
\* records find_matches reports and the records upserted are all valid, and
\* none of them comes from a comment whose record is invalid
C11_InvalidRecordsDiscarded ==
    /\ CandidatesListed =>
           \A i \in DOMAIN candidates :
               "Summary" \in DOMAIN candidates[i] /\ KeptCandidate(candidates[i])
    /\ JobsListed =>
           \A i \in DOMAIN jobs : "Summary" \in DOMAIN jobs[i] /\ KeptJob(jobs[i])
    /\ MatchesFound =>
           /\ \A i \in DOMAIN matches :
                  /\ KeptCandidate(matches[i].candidate)
                  /\ \A k \in DOMAIN matches[i].matches : KeptJob(matches[i].matches[k].job)
           /\ \A i \in DOMAIN result_file.data.candidates :
                  KeptCandidate(result_file.data.candidates[i])
           /\ \A i \in DOMAIN result_file.data.jobs : KeptJob(result_file.data.jobs[i])
    /\ Upserted =>
           \A i \in DOMAIN points :
               IF points[i].type = Str_candidate THEN KeptCandidate(points[i].data)
               ELSE KeptJob(points[i].data)

\* job_matcher.main has saved matches for threads of which a candidate and a
\* job were discarded
C11_Witness ==
    /\ pc = "saved"
    /\ DiscardedCandidates # {}
    /\ DiscardedJobs # {}
    /\ matches # <<>>

(***************************************************************************)
(* properties of get_data.match_candidates_for_job, checked under RankSpec *)
(***************************************************************************)

\* C21: every match score match_candidates_for_job computes (the technology
\* match percentage plus the remote and the location bonus) is an integer
\* between 0 and 100
C21_ScoreWithinPercent ==
    pc = "ranked" =>
        \A i \in DOMAIN scored_candidates : scored_candidates[i].score \in 0..100

----------------------------------------------------------------------------
(* the two technology matchers applied to the same text *)

Str_Python == <<"P", "y", "t", "h", "o", "n">>  \* "Python"
Str_PYTHON == <<"P", "Y", "T", "H", "O", "N">>  \* "PYTHON"
Str_Cpp == <<"C", "+", "+">>  \* "C++"
Str_CSharp == <<"C", "#">>  \* "C#"
Str_NodeJs == <<"N", "o", "d", "e", ".", "j", "s">>  \* "Node.js"
Str_React == <<"R", "e", "a", "c", "t">>  \* "React"
Str_Spring == <<"S", "p", "r", "i", "n", "g">>  \* "Spring"
Str_SQL == <<"S", "Q", "L">>  \* "SQL"
Str_Cobol == <<"C", "o", "b", "o", "l">>  \* "Cobol"
Str_TechnologiesLabel == <<"T", "e", "c", "h", "n", "o", "l", "o", "g", "i", "e", "s", ":", " ">>  \* "Technologies: "
Str_CommaSpace == <<",", " ">>  \* ", "

\* the technologies of the lines the matchers read, in several spellings
TechSpellings ==
    {Str_Python, Str_PYTHON, Str_Cpp, Str_CSharp, Str_NodeJs, Str_React, Str_Spring, Str_SQL,
     Str_Cobol}

\* the greatest number of technologies on a line
MaxListed == 2

\* the line  "Technologies: X, Y, Z"
TechnologiesLine(items) == Str_TechnologiesLabel \o Join(items, Str_CommaSpace)

\* the texts: a list of technologies with or without its label
TechTexts ==
    UNION {{TechnologiesLine(items), Join(items, Str_CommaSpace)} :
              items \in ListsOf(TechSpellings, MaxListed)}

\* re.match(r'^\d+(\.\d+)*(\+)?$', t)
IsVersionNumber(t) ==
    LET core == IF t # <<>> /\ t[Len(t)] = "+" THEN SubSeq(t, 1, Len(t) - 1) ELSE t
    IN /\ core # <<>>
       /\ \A i \in DOMAIN core : core[i] \in Digits \cup {"."}
       /\ core[1] # "." /\ core[Len(core)] # "."
       /\ \A i \in 1..(Len(core) - 1) : ~(core[i] = "." /\ core[i + 1] = ".")

\* the set technologies of get_data.extract_technologies before it is sorted
FoundTechnologies(text) ==
    {t \in {TechAlias(TechKeywords[k]) :
               k \in {j \in DOMAIN TechKeywords : HasWord(lower(text), TechKeywords[j])}} :
        ~IsVersionNumber(t)}

\* list(technologies): a set is iterated in an order the hash seed decides
Orderings(technologies_set) ==
    {l \in [1..Cardinality(technologies_set) -> technologies_set] : Range(l) = technologies_set}

\* sorted(l) left as it is
sorted_Unsorted(l) == l

\* sorted(l) for a list of str
RECURSIVE sorted(_)
sorted(l) ==
    IF l = <<>> THEN <<>>
    ELSE LET rest == sorted(Tail(l))
         IN SelectSeq(rest, LAMBDA x : StrLess(x, Head(l)))
                \o <<Head(l)>>
                \o SelectSeq(rest, LAMBDA x : ~StrLess(x, Head(l)))

TechInit ==
    /\ comment_text \in TechTexts
    /\ technologies_found = None
    /\ found_tech = None
    /\ pc = "text"
    /\ candidate = None
    /\ job = None
    /\ match_result = None
    /\ candidates = None
    /\ jobs = None
    /\ min_score = None
    /\ matches = None
    /\ job_posts = None
    /\ results = None
    /\ comment_type = None
    /\ extracted = None
    /\ thread = None
    /\ comments_list = None
    /\ skipped_count = None
    /\ re_inline_flags = None
    /\ candidate_comments = None
    /\ job_comments = None
    /\ result_file = None
    /\ points = None
    /\ scored_candidates = None
    /\ cleaned_text = None
    /\ hiring_posts = None
    /\ candidate_posts = None
    /\ all_posts = None
    /\ total_candidates = None
    /\ total_jobs = None
    /\ processed_batches = None
    /\ environ = None
    /\ script_runs = None
    /\ printed = None

\* the variables the two matchers do not write
restOfTech ==
    <<candidate, job, match_result, candidates, jobs, min_score, matches, blendVars,
      comment_text, comment_type, extracted, thread, comments_list, skipped_count, pipeVars,
      rankVars, cleanVars, selectVars, batchVars, runVars>>

\* a call of get_data.extract_technologies(comment_text), a first call or
\* one more
ExtractTechnologies ==
    /\ pc \in {"text", "get_data", "job_matcher", "both"}
    /\ \E order \in Orderings(FoundTechnologies(comment_text)) :
           technologies_found' = sorted(order)
    /\ pc' = IF pc \in {"text", "get_data"} THEN "get_data" ELSE "both"
    /\ UNCHANGED <<found_tech, restOfTech>>

\* a call of job_matcher.extract_technologies(comment_text)
ExtractTechnologiesForScoring ==
    /\ pc \in {"text", "get_data"}
    /\ found_tech' = extract_technologies(comment_text)
    /\ pc' = IF pc = "text" THEN "job_matcher" ELSE "both"
    /\ UNCHANGED <<technologies_found, restOfTech>>

TechNext == ExtractTechnologies \/ ExtractTechnologiesForScoring

TechSpec == TechInit /\ [][TechNext]_vars

(***************************************************************************)
(* properties of the two technology matchers, checked under TechSpec       *)
(***************************************************************************)

\* C22: the matcher of get_data and the matcher of job_matcher recognise the
\* same set of technologies for every text
C22_SameTechnologies ==
    pc = "both" => Range(technologies_found) = found_tech

\* the canonical form of a spelling: lower case, and  node  for Node.js
CanonicalForm(spelling) == TechAlias(lower(spelling))

\* the spellings of the technologies both vocabularies hold
VocabularySpellings ==
    {s \in TechSpellings : lower(s) \in Range(TechKeywords) /\ CanonicalForm(s) \in tech_keywords}

\* C23: for a text with a line  "Technologies: X, Y, Z"  of technologies of
\* the vocabulary (C++, C# and Node.js among them) both matchers recover
\* exactly the set of the canonical forms, none missing and none extra, and
\* two spellings of one technology yield one token
C23_ListedTechnologiesRecovered ==
    pc = "both" =>
        \A items \in ListsOf(VocabularySpellings, MaxListed) :
            (items # <<>> /\ comment_text = TechnologiesLine(items)) =>
                /\ Range(technologies_found) = {CanonicalForm(items[i]) : i \in DOMAIN items}
                /\ found_tech = {CanonicalForm(items[i]) : i \in DOMAIN items}
                /\ Len(technologies_found) = Cardinality(Range(technologies_found))

\* the keys of the dict of common variations
TechAliasKeys ==
    { <<"n", "o", "d", "e", ".", "j", "s">>,
      <<"v", "u", "e", ".", "j", "s">>,
      <<"n", "e", "x", "t", ".", "j", "s">>,
      <<"r", "e", "a", "c", "t", ".", "j", "s">>,
      <<".", "n", "e", "t">> }

\* no word of tech_patterns occurs in text, in any case and at any place
NoVocabularyTerm(text) ==
    \A k \in DOMAIN TechKeywords : ~Contains(lower(text), TechKeywords[k])

\* the list a call of get_data.extract_technologies has returned
TechnologiesReturned == pc \in {"get_data", "both"}

\* C24: the list get_data.extract_technologies returns is sorted lexically,
\* holds no duplicate, no key of the alias table (node.js, vue.js, next.js,
\* react.js, .net) and no numeric-only token; one more call on the same text
\* returns the same list; a text without a term of the vocabulary gives the
\* empty list
C24_Step ==
    TechnologiesReturned' =>
        /\ \A i \in DOMAIN technologies_found' : \A k \in DOMAIN technologies_found' :
               i < k => StrLess(technologies_found'[i], technologies_found'[k])
        /\ \A i \in DOMAIN technologies_found' :
               /\ technologies_found'[i] \notin TechAliasKeys
               /\ ~IsVersionNumber(technologies_found'[i])
        /\ TechnologiesReturned => technologies_found' = technologies_found
        /\ NoVocabularyTerm(comment_text') => technologies_found' = <<>>

C24_SortedCanonicalList == [][C24_Step]_vars

\* get_data.extract_technologies has returned two technologies for a text
\* that spells one of them as a key of the alias table
C24_Witness ==
    /\ TechnologiesReturned
    /\ Len(technologies_found) = 2
    /\ \E key \in TechAliasKeys : Contains(lower(comment_text), key)

\* get_data.extract_technologies has returned the empty list for a text
\* without a term of the vocabulary
C24_EmptyWitness ==
    /\ TechnologiesReturned
    /\ NoVocabularyTerm(comment_text)
    /\ comment_text # EmptyStr

----------------------------------------------------------------------------
(* job_matcher.clean_html applied to the text of a comment *)

Lit_b_open == <<"<", "b", ">">>  \* "<b>"
Lit_br_slash == <<"<", "b", "r", "/", ">">>  \* "<br/>"
Lit_escaped_b == <<"&", "l", "t", ";", "b", "&", "g", "t", ";">>  \* "&lt;b&gt;"
Str_two_spaces == <<" ", " ">>  \* "  "
Str_word == <<"G", "o">>  \* "Go"

\* the pieces of the texts: tags, an escaped tag as the API sends what a
\* writer typed, spaces, a newline and a word
HtmlPieces ==
    {Lit_p_tag, Lit_br_slash, Lit_b_open, Lit_escaped_b, Str_two_spaces, Str_newline, Str_word}

\* the greatest number of pieces of a text
MaxPieces == 3

\* the texts of the comments
HtmlTexts ==
    {Join(pieces, EmptyStr) : pieces \in UNION {[1..n -> HtmlPieces] : n \in 0..MaxPieces}}

CleanInit ==
    /\ comment_text \in HtmlTexts
    /\ cleaned_text = None
    /\ pc = "html"
    /\ candidate = None
    /\ job = None
    /\ match_result = None
    /\ candidates = None
    /\ jobs = None
    /\ min_score = None
    /\ matches = None
    /\ job_posts = None
    /\ results = None
    /\ comment_type = None
    /\ extracted = None
    /\ thread = None
    /\ comments_list = None
    /\ skipped_count = None
    /\ re_inline_flags = None
    /\ candidate_comments = None
    /\ job_comments = None
    /\ result_file = None
    /\ points = None
    /\ scored_candidates = None
    /\ technologies_found = None
    /\ found_tech = None
    /\ hiring_posts = None
    /\ candidate_posts = None
    /\ all_posts = None
    /\ total_candidates = None
    /\ total_jobs = None
    /\ processed_batches = None
    /\ environ = None
    /\ script_runs = None
    /\ printed = None

\* the variables clean_html does not write
restOfClean ==
    <<candidate, job, match_result, candidates, jobs, min_score, matches, blendVars,
      comment_text, comment_type, extracted, thread, comments_list, skipped_count, pipeVars,
      rankVars, techVars, selectVars, batchVars, runVars>>

\* a call of clean_html(comment_text)
CleanHtml ==
    /\ pc = "html"
    /\ cleaned_text' = clean_html(comment_text)
    /\ pc' = "cleaned"
    /\ UNCHANGED restOfClean

CleanNext == CleanHtml

CleanSpec == CleanInit /\ [][CleanNext]_vars

(***************************************************************************)
(* properties of clean_html, checked under CleanSpec                       *)
(***************************************************************************)

\* s holds a run of n characters ch
HasRun(s, ch, n) == \E i \in 1..(Len(s) - n + 1) : \A k \in 0..(n - 1) : s[i + k] = ch

\* C25: the text clean_html returns holds no markup tag, no run of three or
\* more newlines, no run of two or more spaces and no leading or trailing
\* whitespace
C25_CleanText ==
    pc = "cleaned" =>
        /\ \A i \in DOMAIN cleaned_text : ~TagAt(cleaned_text, i)
        /\ ~HasRun(cleaned_text, "\n", 3)
        /\ ~HasRun(cleaned_text, " ", 2)
        /\ strip(cleaned_text) = cleaned_text

----------------------------------------------------------------------------
(* job_matcher.generate_candidate_summary and generate_job_summary applied *)
(* to the records extracted from a comment                                 *)

\* the greatest number of paragraphs of a summarized comment
MaxSummaryParagraphs == 2

\* the paragraphs of the summarized comments
SummaryParagraphs ==
    <<
       \* acme | dev
       <<"a", "c", "m", "e", " ", "|", " ", "d", "e", "v">>,
       \* Acme | Senior Engineer
       <<"A", "c", "m", "e", " ", "|", " ", "S", "e", "n", "i", "o", "r", " ", "E", "n", "g", "i", "n", "e", "e", "r">>,
       \* Location: berlin
       <<"L", "o", "c", "a", "t", "i", "o", "n", ":", " ", "b", "e", "r", "l", "i", "n">>,
       \* Location: 4 Main St
       <<"L", "o", "c", "a", "t", "i", "o", "n", ":", " ", "4", " ", "M", "a", "i", "n", " ", "S", "t">>,
       \* Remote: Yes
       <<"R", "e", "m", "o", "t", "e", ":", " ", "Y", "e", "s">>,
       \* Technologies: Go, Rust, C, Java
       <<"T", "e", "c", "h", "n", "o", "l", "o", "g", "i", "e", "s", ":", " ", "G", "o", ",", " ", "R", "u", "s", "t", ",", " ", "C", ",", " ", "J", "a", "v", "a">>,
       \* Salary: 100k
       <<"S", "a", "l", "a", "r", "y", ":", " ", "1", "0", "0", "k">> >>

\* the 'text' of the comments of n of these paragraphs, none twice
RECURSIVE SummaryCommentsOf(_)
SummaryCommentsOf(n) ==
    IF n = 1 THEN {SummaryParagraphs[i] : i \in DOMAIN SummaryParagraphs}
    ELSE {p[1] \o Lit_p_tag \o SummaryParagraphs[p[2]] :
             p \in {q \in SummaryCommentsOf(n - 1) \X DOMAIN SummaryParagraphs :
                       ~Contains(q[1], SummaryParagraphs[q[2]])}}

SummaryTexts == {EmptyStr} \cup UNION {SummaryCommentsOf(n) : n \in 1..MaxSummaryParagraphs}

SummaryInit ==
    /\ comment_text \in SummaryTexts
    /\ re_inline_flags \in BOOLEAN
    /\ extracted = None
    /\ pc = "comment"
    /\ candidate = None
    /\ job = None
    /\ match_result = None
    /\ candidates = None
    /\ jobs = None
    /\ min_score = None
    /\ matches = None
    /\ job_posts = None
    /\ results = None
    /\ comment_type = None
    /\ thread = None
    /\ comments_list = None
    /\ skipped_count = None
    /\ candidate_comments = None
    /\ job_comments = None
    /\ result_file = None
    /\ points = None
    /\ scored_candidates = None
    /\ technologies_found = None
    /\ found_tech = None
    /\ cleaned_text = None
    /\ hiring_posts = None
    /\ candidate_posts = None
    /\ all_posts = None
    /\ total_candidates = None
    /\ total_jobs = None
    /\ processed_batches = None
    /\ environ = None
    /\ script_runs = None
    /\ printed = None

\* the variables the summary generators do not write
restOfSummary ==
    <<candidate, job, match_result, candidates, jobs, min_score, matches, blendVars,
      comment_text, comment_type, thread, comments_list, skipped_count, pipeVars, rankVars,
      techVars, cleanVars, selectVars, batchVars, runVars>>

\* candidate = extract_candidate_fields(comment);
\* candidate["Summary"] = generate_candidate_summary(candidate)
SummarizeCandidate ==
    /\ pc = "comment"
    /\ LET fields == extract_candidate_fields(CommentOf(Str_7, comment_text), Today)
       IN extracted' = WithSummary(fields, generate_candidate_summary(fields))
    /\ pc' = "candidate_summary"
    /\ UNCHANGED restOfSummary

\* job = extract_job_fields(comment); job["Summary"] = generate_job_summary(job),
\* or the re.error of extract_job_fields
SummarizeJob ==
    /\ pc = "comment"
    /\ LET fields == extract_job_fields(CommentOf(Str_7, comment_text), Today, re_inline_flags)
       IN extracted' = IF re_inline_flags
                       THEN WithSummary(fields, generate_job_summary(fields))
                       ELSE fields
    /\ pc' = IF re_inline_flags THEN "job_summary" ELSE "raised"
    /\ UNCHANGED restOfSummary

SummaryNext == SummarizeCandidate \/ SummarizeJob

SummarySpec == SummaryInit /\ [][SummaryNext]_vars

(***************************************************************************)
(* properties of the summary generators, checked under SummarySpec         *)
(***************************************************************************)

\* C26: generate_candidate_summary and generate_job_summary return for every
\* extracted record, an absent field (None) is left out of the summary, and
\* the first character of the string either generator returns is upper-case
C26_SummaryCapitalized ==
    pc \in {"candidate_summary", "job_summary"} =>
        /\ extracted.Summary # None
        /\ \A i \in DOMAIN extracted.Summary : extracted.Summary[i] # "None"
        /\ extracted.Summary # EmptyStr
        /\ extracted.Summary[1] \in Range(UpperCase)

----------------------------------------------------------------------------
(* get_data: the selection of all_posts from the two lists get_comments    *)
(* returns                                                                 *)

max_per_category == MAX_POSTS \div 2

\* the posts of a list get_comments returns, told apart by their place
PostsOf(post_type, n) == [i \in 1..n |-> [type |-> post_type, place |-> i]]

\* l[:n]
Truncated(l, n) == SubSeq(l, 1, Min(n, Len(l)))

\* all_posts after the test for an odd MAX_POSTS, given the two lists as
\* they are when the test is made
WithOddPost(selected, jobs_taken, candidates_taken) ==
    IF Len(selected) < MAX_POSTS /\ (jobs_taken # <<>> \/ candidates_taken # <<>>)
    THEN IF Len(jobs_taken) > max_per_category
         THEN Append(selected, jobs_taken[max_per_category + 1])
         ELSE IF Len(candidates_taken) > max_per_category
         THEN Append(selected, candidates_taken[max_per_category + 1])
         ELSE selected
    ELSE selected

\* get_comments stops at MAX_POSTS posts
SelectInit ==
    /\ hiring_posts \in {PostsOf(Str_job, n) : n \in 0..MAX_POSTS}
    /\ candidate_posts \in {PostsOf(Str_candidate, n) : n \in 0..MAX_POSTS}
    /\ all_posts = None
    /\ pc = "fetched"
    /\ candidate = None
    /\ job = None
    /\ match_result = None
    /\ candidates = None
    /\ jobs = None
    /\ min_score = None
    /\ matches = None
    /\ job_posts = None
    /\ results = None
    /\ comment_text = None
    /\ comment_type = None
    /\ extracted = None
    /\ thread = None
    /\ comments_list = None
    /\ skipped_count = None
    /\ re_inline_flags = None
    /\ candidate_comments = None
    /\ job_comments = None
    /\ result_file = None
    /\ points = None
    /\ scored_candidates = None
    /\ technologies_found = None
    /\ found_tech = None
    /\ cleaned_text = None
    /\ total_candidates = None
    /\ total_jobs = None
    /\ processed_batches = None
    /\ environ = None
    /\ script_runs = None
    /\ printed = None

\* the variables the selection does not write
restOfSelect ==
    <<candidate, job, match_result, candidates, jobs, min_score, matches, blendVars, dataVars,
      pipeVars, rankVars, techVars, cleanVars, batchVars, runVars>>

\* lines 394 to 407: both lists are cut, joined, and the test for one more
\* post is made on the lists as cut
SelectPosts ==
    /\ pc = "fetched"
    /\ hiring_posts' = Truncated(hiring_posts, max_per_category)
    /\ candidate_posts' = Truncated(candidate_posts, max_per_category)
    /\ all_posts' = WithOddPost(hiring_posts' \o candidate_posts', hiring_posts', candidate_posts')
    /\ pc' = "selected"
    /\ UNCHANGED restOfSelect

SelectNext == SelectPosts

SelectSpec == SelectInit /\ [][SelectNext]_vars

(***************************************************************************)
(* properties of the selection of all_posts, checked under SelectSpec      *)
(***************************************************************************)

\* the number of posts the selection is to hold for h fetched job posts and
\* c fetched candidate posts: at most MAX_POSTS \div 2 of each and, for an
\* odd MAX_POSTS, one more when a list has more than MAX_POSTS \div 2
ExpectedSelected(h, c) ==
    Min(h, max_per_category) + Min(c, max_per_category)
        + (IF MAX_POSTS % 2 = 1 /\ (h > max_per_category \/ c > max_per_category) THEN 1 ELSE 0)

\* C27: the selection takes at most MAX_POSTS \div 2 posts of each list and,
\* MAX_POSTS being odd, one more post from a list that holds more than
\* MAX_POSTS \div 2 (25 posts for 13 or more fetched posts in a list and 12
\* or more in the other); all_posts never holds more than MAX_POSTS posts
C27_Step ==
    (pc = "fetched" /\ pc' = "selected") =>
        /\ Len(all_posts') = ExpectedSelected(Len(hiring_posts), Len(candidate_posts))
        /\ Len(all_posts') <= MAX_POSTS

C27_OddPostAdded == [][C27_Step]_vars

(***************************************************************************)
(* completeness of find_matches, checked under Spec                        *)
(***************************************************************************)

\* the pairs <<candidate, job>> of the result
ReportedPairs ==
    UNION {{<<matches[e].candidate, matches[e].matches[i].job>> :
               i \in DOMAIN matches[e].matches} : e \in DOMAIN matches}

\* the pairs of the two input lists whose score reaches min_score
QualifyingPairs ==
    {p \in Range(candidates) \X Range(jobs) :
        calculate_match_score(p[1], p[2]).score >= min_score}

\* C28: the pairs of the result of find_matches are exactly the pairs of
\* candidates and jobs whose calculate_match_score is at least min_score,
\* each once and under its own candidate; a candidate without such a pair
\* has no entry and every entry has a non-empty matches list, for every
\* input, empty lists included
C28_CompleteAndExact ==
    Found =>
        /\ ReportedPairs = QualifyingPairs
        /\ \A e \in DOMAIN matches :
               /\ matches[e].matches # <<>>
               /\ \A f \in DOMAIN matches :
                      e # f => matches[e].candidate # matches[f].candidate
               /\ \A i \in DOMAIN matches[e].matches : \A k \in DOMAIN matches[e].matches :
                      i # k => matches[e].matches[i].job # matches[e].matches[k].job

\* find_matches has left out one of two candidates and one of the two jobs
\* of the other, whose one match has exactly the score min_score
C28_Witness ==
    /\ Found
    /\ Len(candidates) = 2
    /\ Len(jobs) = 2
    /\ Len(matches) = 1
    /\ Len(matches[1].matches) = 1
    /\ matches[1].matches[1].match_score = min_score

\* find_matches has returned the empty list for an empty list of jobs
C28_EmptyWitness ==
    /\ Found
    /\ candidates # <<>>
    /\ jobs = <<>>
    /\ matches = <<>>

----------------------------------------------------------------------------
(* upsert_to_qdrant.upsert_to_qdrant_in_batches on lists longer than a     *)
(* batch                                                                   *)

\* the most full batches of a list
MaxFullBatches == 2

\* the lengths of the lists: empty, one item, and a number of full batches
\* with or without one more item
BatchLengths == {0, 1} \cup {k * BATCH_SIZE + d : k \in 1..MaxFullBatches, d \in {0, 1}}

\* a list of n records of a type, told apart by their id
ItemsOf(item_type, n) == [i \in 1..n |-> [id |-> i, type |-> item_type]]

\* process_batch returning len(points) after a failed upsert as well
process_batch_CountsFailed(batch, outcome) == Len(BatchPoints(batch))

\* what process_batch returns for a batch it does not leave by raising:
\* len(points) after the upsert, 0 from the except branch
process_batch(batch, outcome) == IF outcome = "upserted" THEN Len(BatchPoints(batch)) ELSE 0

\* total += process_batch(client, batch, item_type) for the batches from k on
RECURSIVE BatchTotal(_, _, _)
BatchTotal(batches, outcomes, k) ==
    IF k > Len(batches) THEN 0
    ELSE process_batch(batches[k], outcomes[k]) + BatchTotal(batches, outcomes, k + 1)

\* the calls of process_batch, in order, up to the first that raises
ProcessedBatches(batches, outcomes) ==
    LET raising == {k \in DOMAIN batches : outcomes[k] = "raised"}
        last == IF raising = {} THEN Len(batches) ELSE Least(raising)
    IN [k \in 1..last |-> [batch |-> batches[k], outcome |-> outcomes[k]]]

BatchInit ==
    /\ candidates \in {ItemsOf(Str_candidate, n) : n \in BatchLengths}
    /\ jobs \in {ItemsOf(Str_job, n) : n \in BatchLengths}
    /\ total_candidates = None
    /\ total_jobs = None
    /\ processed_batches = None
    /\ points = None
    /\ pc = "upsert"
    /\ candidate = None
    /\ job = None
    /\ match_result = None
    /\ min_score = None
    /\ matches = None
    /\ job_posts = None
    /\ results = None
    /\ comment_text = None
    /\ comment_type = None
    /\ extracted = None
    /\ thread = None
    /\ comments_list = None
    /\ skipped_count = None
    /\ re_inline_flags = None
    /\ candidate_comments = None
    /\ job_comments = None
    /\ result_file = None
    /\ scored_candidates = None
    /\ technologies_found = None
    /\ found_tech = None
    /\ cleaned_text = None
    /\ hiring_posts = None
    /\ candidate_posts = None
    /\ all_posts = None
    /\ environ = None
    /\ script_runs = None
    /\ printed = None

\* the variables upsert_to_qdrant_in_batches does not write
restOfBatch ==
    <<candidate, job, match_result, candidates, jobs, min_score, matches, blendVars, dataVars,
      re_inline_flags, candidate_comments, job_comments, result_file, rankVars, techVars,
      cleanVars, selectVars, runVars>>

\* a call of upsert_to_qdrant_in_batches that returns the two totals: every
\* batch is upserted or fails in client.upsert
UpsertBatches ==
    /\ pc = "upsert"
    /\ LET candidate_batches == Batches(candidates, Str_candidate)
           job_batches == Batches(jobs, Str_job)
       IN \E outcomes \in [1..(Len(candidate_batches) + Len(job_batches))
                              -> BatchOutcomes \ {"raised"}] :
              /\ total_candidates' = BatchTotal(candidate_batches, outcomes, 1)
              /\ total_jobs' =
                     BatchTotal(job_batches,
                                [k \in DOMAIN job_batches |-> outcomes[Len(candidate_batches) + k]],
                                1)
              /\ processed_batches' = ProcessedBatches(candidate_batches \o job_batches, outcomes)
              /\ points' = upsert_to_qdrant_in_batches(candidates, jobs, outcomes)
    /\ pc' = "upserted"
    /\ UNCHANGED restOfBatch

\* a call that generate_embedding leaves with its exception in some batch:
\* nothing is returned
UpsertBatchesRaises ==
    /\ pc = "upsert"
    /\ LET batches == Batches(candidates, Str_candidate) \o Batches(jobs, Str_job)
       IN \E outcomes \in [DOMAIN batches -> BatchOutcomes] :
              /\ \E k \in DOMAIN batches : outcomes[k] = "raised"
              /\ processed_batches' = ProcessedBatches(batches, outcomes)
              /\ points' = upsert_to_qdrant_in_batches(candidates, jobs, outcomes)
    /\ pc' = "upsert_raised"
    /\ UNCHANGED <<total_candidates, total_jobs, restOfBatch>>

BatchNext == UpsertBatches \/ UpsertBatchesRaises

BatchSpec == BatchInit /\ [][BatchNext]_vars

(***************************************************************************)
(* properties of upsert_to_qdrant_in_batches, checked under BatchSpec      *)
(***************************************************************************)

\* the items of the processed batches of a type, in the order of the calls
RECURSIVE ProcessedItems(_, _)
ProcessedItems(item_type, k) ==
    IF k > Len(processed_batches) THEN <<>>
    ELSE (IF processed_batches[k].batch.item_type = item_type
          THEN processed_batches[k].batch.items ELSE <<>>) \o ProcessedItems(item_type, k + 1)

\* the summed sizes of the processed batches of a type whose upsert succeeded
RECURSIVE UpsertedCount(_, _)
UpsertedCount(item_type, k) ==
    IF k > Len(processed_batches) THEN 0
    ELSE (IF /\ processed_batches[k].batch.item_type = item_type
             /\ processed_batches[k].outcome = "upserted"
          THEN Len(processed_batches[k].batch.items) ELSE 0) + UpsertedCount(item_type, k + 1)

\* C29: the batches are consecutive slices of the candidates and then of
\* the jobs, in input order, of at most BATCH_SIZE items each, every item in
\* exactly one batch and no job batch before a candidate batch; the totals
\* returned are the summed sizes of the batches whose upsert succeeded, a
\* failed batch adds 0 and the batches after it are processed, and
\* 0 <= total_candidates <= len(candidates), 0 <= total_jobs <= len(jobs)
C29_BatchesAndTotals ==
    pc = "upserted" =>
        /\ ProcessedItems(Str_candidate, 1) = candidates
        /\ ProcessedItems(Str_job, 1) = jobs
        /\ \A k \in DOMAIN processed_batches :
               /\ Len(processed_batches[k].batch.items) \in 1..BATCH_SIZE
               /\ \A n \in DOMAIN processed_batches :
                      (/\ processed_batches[k].batch.item_type = Str_candidate
                       /\ processed_batches[n].batch.item_type = Str_job) => k < n
        /\ total_candidates = UpsertedCount(Str_candidate, 1)
        /\ total_jobs = UpsertedCount(Str_job, 1)
        /\ total_candidates \in 0..Len(candidates)
        /\ total_jobs \in 0..Len(jobs)
        /\ Len(points) = total_candidates + total_jobs

\* the call has returned after three candidate batches, the second of which
\* failed and the third of which was upserted, and two job batches
C29_Witness ==
    /\ pc = "upserted"
    /\ Len(candidates) = 2 * BATCH_SIZE + 1
    /\ Len(jobs) = BATCH_SIZE + 1
    /\ Len(processed_batches) = 5
    /\ processed_batches[2].outcome = "failed"
    /\ processed_batches[3].outcome = "upserted"
    /\ total_candidates = BATCH_SIZE + 1

----------------------------------------------------------------------------
(* run_job_matcher.main and run_script *)

Script_candidates == "extract_hn_candidates.py"
Script_jobs == "extract_hn_jobs.py"
Script_matcher == "job_matcher.py"
Script_upsert == "upsert_to_qdrant.py"

\* what os.system returns for a script that ends with status 1
ExitFailure == 256

\* check_requirements(), check_qdrant_config() and check_api_key() for the
\* modules installed and the variables of the environment
Environments == [requirements : BOOLEAN, qdrant_config : BOOLEAN, api_key : BOOLEAN]

\* the most batches upsert_to_qdrant.py upserts in a run
MaxUpserted == 2

\* a run of a script whose output is not read
ScriptRun(script_name, exit_code) ==
    [script_name |-> script_name, exit_code |-> exit_code, upserted_batches |-> 0,
     output_has_success |-> FALSE]

\* a run of upsert_to_qdrant.py: process_batch prints  "Successfully upserted
\* {len(points)} {item_type}s"  for every batch upserted, main prints
\* "Successfully upserted a total of ..."  when it gets there, and the
\* script ends with status 0 when main returns
UpsertRun(upserted_batches, finished) ==
    [script_name |-> Script_upsert,
     exit_code |-> IF finished THEN 0 ELSE ExitFailure,
     upserted_batches |-> upserted_batches,
     output_has_success |-> upserted_batches > 0 \/ finished]

RunInit ==
    /\ environ \in Environments
    /\ script_runs = <<>>
    /\ printed = None
    /\ pc = "check_requirements"
    /\ candidate = None
    /\ job = None
    /\ match_result = None
    /\ candidates = None
    /\ jobs = None
    /\ min_score = None
    /\ matches = None
    /\ job_posts = None
    /\ results = None
    /\ comment_text = None
    /\ comment_type = None
    /\ extracted = None
    /\ thread = None
    /\ comments_list = None
    /\ skipped_count = None
    /\ re_inline_flags = None
    /\ candidate_comments = None
    /\ job_comments = None
    /\ result_file = None
    /\ points = None
    /\ scored_candidates = None
    /\ technologies_found = None
    /\ found_tech = None
    /\ cleaned_text = None
    /\ hiring_posts = None
    /\ candidate_posts = None
    /\ all_posts = None
    /\ total_candidates = None
    /\ total_jobs = None
    /\ processed_batches = None

\* the variables run_job_matcher.main does not write
restOfRun ==
    <<candidate, job, match_result, candidates, jobs, min_score, matches, blendVars, dataVars,
      pipeVars, rankVars, techVars, cleanVars, selectVars, batchVars>>

\* the three checks of main, each followed by sys.exit(1) when it fails
CheckConfiguration ==
    /\ pc \in {"check_requirements", "check_qdrant_config", "check_api_key"}
    /\ pc' = IF pc = "check_requirements"
             THEN (IF environ.requirements THEN "check_qdrant_config" ELSE "exited")
             ELSE IF pc = "check_qdrant_config"
             THEN (IF environ.qdrant_config THEN "check_api_key" ELSE "exited")
             ELSE (IF environ.api_key THEN "step_1" ELSE "exited")
    /\ UNCHANGED <<environ, script_runs, printed, restOfRun>>

\* steps 1 to 3: run_script(script_name), the exit code is dropped
RunStep ==
    /\ pc \in {"step_1", "step_2", "step_3"}
    /\ \E exit_code \in {0, ExitFailure} :
           script_runs' =
               Append(script_runs,
                      ScriptRun(IF pc = "step_1" THEN Script_candidates
                                ELSE IF pc = "step_2" THEN Script_jobs ELSE Script_matcher,
                                exit_code))
    /\ pc' = IF pc = "step_1" THEN "step_2" ELSE IF pc = "step_2" THEN "step_3" ELSE "step_4"
    /\ UNCHANGED <<environ, printed, restOfRun>>

\* step 4: exit_code = run_script("upsert_to_qdrant.py"), the output goes to
\* upsert_output.txt
RunUpsert ==
    /\ pc = "step_4"
    /\ \E upserted_batches \in 0..MaxUpserted : \E finished \in BOOLEAN :
           script_runs' = Append(script_runs, UpsertRun(upserted_batches, finished))
    /\ pc' = "report"
    /\ UNCHANGED <<environ, printed, restOfRun>>

\* success is "Successfully upserted" in output; if success or exit_code == 0
ReportOutcome ==
    /\ pc = "report"
    /\ printed' = IF script_runs[4].output_has_success \/ script_runs[4].exit_code = 0
                  THEN "success" ELSE "error"
    /\ pc' = "done"
    /\ UNCHANGED <<environ, script_runs, restOfRun>>

RunNext == CheckConfiguration \/ RunStep \/ RunUpsert \/ ReportOutcome

RunSpec == RunInit /\ [][RunNext]_vars

(***************************************************************************)
(* properties of run_job_matcher.main, checked under RunSpec               *)
(***************************************************************************)

\* C30: the success message is printed only when the three checks passed,
\* the four scripts ran in order, each ended without error and at least one
\* batch was upserted; when a step failed the error branch is taken
C30_SuccessOnlyAfterAllSteps ==
    pc = "done" =>
        /\ printed = "success" =>
               /\ environ.requirements /\ environ.qdrant_config /\ environ.api_key
               /\ [k \in DOMAIN script_runs |-> script_runs[k].script_name]
                      = <<Script_candidates, Script_jobs, Script_matcher, Script_upsert>>
               /\ \A k \in DOMAIN script_runs : script_runs[k].exit_code = 0
               /\ script_runs[4].upserted_batches >= 1
        /\ (\E k \in DOMAIN script_runs : script_runs[k].exit_code # 0) => printed = "error"

====
